---- MODULE Spec2Model ----
(***************************************************************************)
(* Outfit generation engine of SmartStylist (backend/outfit_generator.py,  *)
(* backend/style_scoring.py, backend/wardrobe_database.py).                *)
(*                                                                         *)
(* Strings are TLA+ strings; the string functions of the code (strip,      *)
(* lower, substring search) are computed character by character.           *)
(* Scores are exact decimals scaled by 10^4 (1.0 is 10000): every factor   *)
(* and table entry of the code has at most four decimals, so products and  *)
(* sums are exact integers.  A mean is kept as the pair <<sum, count>> and *)
(* compared against a threshold by cross-multiplication.                   *)
(***************************************************************************)
EXTENDS Integers, Sequences, FiniteSets, TLC

(***************************************************************************)
(* Python string primitives                                                *)
(***************************************************************************)

\* the i-th character of s, as a one-character string
CharAt(s, i) == SubSeq(s, i, i)

\* k in s
Contains(s, k) ==
  \E i \in 1..(Len(s) - Len(k) + 1) : SubSeq(s, i, i + Len(k) - 1) = k

\* any(k in s for k in ks)
ContainsAny(s, ks) == \E k \in ks : Contains(s, k)

\* the lower-case form of each upper-case letter
LowerMap ==
  [A |-> "a", B |-> "b", C |-> "c", D |-> "d", E |-> "e", F |-> "f", G |-> "g",
   H |-> "h", I |-> "i", J |-> "j", K |-> "k", L |-> "l", M |-> "m", N |-> "n",
   O |-> "o", P |-> "p", Q |-> "q", R |-> "r", S |-> "s", T |-> "t", U |-> "u",
   V |-> "v", W |-> "w", X |-> "x", Y |-> "y", Z |-> "z"]

LowerChar(c) == IF c \in DOMAIN LowerMap THEN LowerMap[c] ELSE c

RECURSIVE Lower(_)
\* str.lower()
Lower(s) == IF s = "" THEN "" ELSE LowerChar(CharAt(s, 1)) \o Lower(SubSeq(s, 2, Len(s)))

\* str.strip() removes whitespace: blank, tab, newline
IsSpace(c) == c \in {" ", "\t", "\n"}

RECURSIVE LStrip(_)
LStrip(s) ==
  IF s # "" /\ IsSpace(CharAt(s, 1)) THEN LStrip(SubSeq(s, 2, Len(s))) ELSE s

RECURSIVE RStrip(_)
RStrip(s) ==
  IF s # "" /\ IsSpace(CharAt(s, Len(s))) THEN RStrip(SubSeq(s, 1, Len(s) - 1)) ELSE s

\* str.strip()
Strip(s) == RStrip(LStrip(s))

\* Optional[str]: None, or a string
PyNone == [none |-> TRUE]
PyStr(s) == [str |-> s]
IsNone(v) == DOMAIN v = {"none"}

(***************************************************************************)
(* style_scoring.py: normalisation helpers                                 *)
(***************************************************************************)

\* the alias table of normalize_color
ColorAliases ==
  [grey |-> "gray", navy |-> "blue", offwhite |-> "white", ivory |-> "white",
   tan |-> "beige", camel |-> "beige", maroon |-> "red"]

\* aliases.get(c, c)
AliasOf(c) == IF c \in DOMAIN ColorAliases THEN ColorAliases[c] ELSE c

\* normalize_color(c), c an Optional[str]
normalize_color(v) ==
  IF IsNone(v) \/ v.str = "" THEN "unknown" ELSE AliasOf(Lower(Strip(v.str)))

ShoeKeys == {"shoe", "sneaker", "heel", "boot", "loafer", "sandals", "footwear"}
DressKeys == {"dress", "robe", "gown"}
AccessoryKeys == {"watch", "belt", "bag", "scarf", "jewelry", "accessory", "hat",
                  "cap", "glasses", "sunglasses"}
BottomKeys == {"jean", "pant", "trouser", "skirt", "short", "legging", "bottom"}
OuterwearKeys == {"jacket", "coat", "blazer", "veste", "hoodie", "sweater",
                  "cardigan", "outerwear"}
TopKeys == {"shirt", "tee", "t-shirt", "top", "blouse", "sweater", "pull", "tank", "polo"}

\* the keyword tests of normalize_category on c = cat.strip().lower(): the
\* first group with a keyword inside c decides
CategoryOf(c) ==
  IF ContainsAny(c, ShoeKeys) THEN "shoes"
  ELSE IF ContainsAny(c, DressKeys) THEN "dress"
  ELSE IF ContainsAny(c, AccessoryKeys) THEN "accessory"
  ELSE IF ContainsAny(c, BottomKeys) THEN "bottom"
  ELSE IF ContainsAny(c, OuterwearKeys) THEN "outerwear"
  ELSE IF ContainsAny(c, TopKeys) THEN "top"
  ELSE c

\* normalize_category(cat), cat an Optional[str]
normalize_category(v) ==
  IF IsNone(v) \/ v.str = "" THEN "unknown" ELSE CategoryOf(Lower(Strip(v.str)))

(***************************************************************************)
(* Inputs of the model                                                     *)
(***************************************************************************)

\* the largest wardrobe of the model
MaxWardrobe == 4

\* a wardrobe document; image_file_id is None for a document without an image
Doc(id, category, color, style_tags, season, formality, image_file_id) ==
  [id |-> id, category |-> category, color |-> color, style_tags |-> style_tags,
   season |-> season, formality |-> formality, image_file_id |-> image_file_id]

\* the documents a wardrobe of the model is drawn from, newest first
Catalogue ==
  << Doc("t1", "T-Shirt", "black", <<>>, "all-season", "casual", PyNone),
     Doc("t2", "Blouse", "teal", <<"professional">>, "summer", "business", PyNone),
     Doc("b1", "Jeans", "black", <<>>, "all-season", "casual", PyNone),
     Doc("b2", "Skirt", "red", <<"athletic">>, "all-season", "casual", PyStr("f1")),
     Doc("s1", "Sneakers", "teal", <<"professional">>, "all-season", "business", PyNone),
     Doc("o1", "Jacket", "red", <<"athletic">>, "winter", "casual", PyStr("f2")) >>

\* the wardrobes: the sub-lists of the catalogue with at most MaxWardrobe documents
Wardrobes ==
  {SelectSeq(Catalogue, LAMBDA d : d.id \in ids) :
     ids \in {S \in SUBSET {Catalogue[k].id : k \in 1..Len(Catalogue)} :
                Cardinality(S) <= MaxWardrobe}}

Occasions == {PyStr("casual day"), PyStr("Business Meeting"), PyStr("date night")}

Weathers ==
  {[temp_c |-> [num |-> 5], condition |-> "clear"],
   [temp_c |-> [num |-> 22], condition |-> "clear"],
   [temp_c |-> [num |-> 22], condition |-> "Rain"]}

NumOutfits == {1, 5}

FocusIds == {PyNone, PyStr("t1")}

(***************************************************************************)
(* Tabulated string functions.  str.lower() and normalize_category are     *)
(* applied to the same few strings over and over; their values on the      *)
(* strings of the catalogue are computed once, and any other string is     *)
(* computed on the spot.                                                   *)
(***************************************************************************)

\* the strings held by a list of documents
StringsOf(docs) ==
  UNION {{docs[k].category, docs[k].color, docs[k].season, docs[k].formality}
         \cup {docs[k].style_tags[t] : t \in 1..Len(docs[k].style_tags)} :
         k \in 1..Len(docs)}

CatalogueStrings == StringsOf(Catalogue)

\* str.lower() on the strings of S and on their lower-case forms
LowerTableOf(S) == [s \in S \cup {Lower(c) : c \in S} |-> Lower(s)]

LowerTable == LowerTableOf(CatalogueStrings)

\* s.lower(), read from the table when the table holds s
LowerIn(table, s) == IF s \in DOMAIN table THEN table[s] ELSE Lower(s)

\* str.lower()
lower(s) == LowerIn(LowerTable, s)

\* the categories of a list of documents
CategoriesOf(docs) == {docs[k].category : k \in 1..Len(docs)}

\* normalize_category on the strings of S and on their normalised forms
CategoryTableOf(S) ==
  [c \in S \cup {normalize_category(PyStr(x)) : x \in S} |-> normalize_category(PyStr(c))]

CategoryTable == CategoryTableOf(CategoriesOf(Catalogue))

\* normalize_category(c), read from the table when the table holds c
NormCategoryIn(table, c) ==
  IF c \in DOMAIN table THEN table[c] ELSE normalize_category(PyStr(c))

\* normalize_category(c) of a string c
NormCategory(c) == NormCategoryIn(CategoryTable, c)

(***************************************************************************)
(* wardrobe_database.py: the per-user item list handed to the generator    *)
(***************************************************************************)

\* one document after WardrobeDatabase.get_user_items: the category is
\* normalised ("unknown" when empty), the other fields are kept
UserItem(doc) ==
  [doc EXCEPT !.category =
     IF doc.category = "" THEN "unknown" ELSE NormCategory(doc.category)]

\* WardrobeDatabase.get_user_items
get_user_items(docs) == [i \in 1..Len(docs) |-> UserItem(docs[i])]

(***************************************************************************)
(* style_scoring.py: weather profile                                       *)
(***************************************************************************)

\* float(temp) inside try/except: a missing temperature becomes 22.0
WeatherTemp(weather) == IF IsNone(weather.temp_c) THEN 22 ELSE weather.temp_c.num

WeatherBucket(t) ==
  IF t <= 12 THEN "cold" ELSE IF t <= 20 THEN "mild" ELSE IF t <= 28 THEN "warm" ELSE "hot"

\* build_weather_profile(weather)
build_weather_profile(weather) ==
  LET t == WeatherTemp(weather)
      cond == lower(Strip(IF weather.condition = "" THEN "clear" ELSE weather.condition))
  IN  [temp_c |-> t, condition |-> cond, bucket |-> WeatherBucket(t)]

(***************************************************************************)
(* outfit_generator.py: ColorHarmony                                       *)
(***************************************************************************)

NeutralColors == {"black", "white", "gray", "grey", "beige", "brown", "navy", "cream", "khaki"}
WarmColors == {"red", "orange", "yellow", "pink", "coral", "peach", "gold"}
CoolColors == {"blue", "green", "purple", "teal", "turquoise", "lavender", "mint"}
EarthColors == {"brown", "beige", "olive", "mustard", "rust", "terracotta"}
JewelColors == {"emerald", "sapphire", "ruby", "amethyst", "topaz"}

\* COMPLEMENTARY_PAIRS
ComplementaryPairs ==
  [red |-> "green", orange |-> "blue", yellow |-> "purple", pink |-> "mint",
   blue |-> "orange", green |-> "red", purple |-> "yellow"]

\* ANALOGOUS_RANGES
AnalogousRanges ==
  [red |-> {"pink", "orange", "coral"}, blue |-> {"teal", "purple", "navy"},
   green |-> {"mint", "olive", "teal"}, purple |-> {"lavender", "pink", "blue"}]

\* the loop of get_color_family on color_lower: the first family, in table
\* order, holding the colour
FamilyOf(c) ==
  IF c \in NeutralColors THEN "neutral"
  ELSE IF c \in WarmColors THEN "warm"
  ELSE IF c \in CoolColors THEN "cool"
  ELSE IF c \in EarthColors THEN "earth"
  ELSE IF c \in JewelColors THEN "jewel"
  ELSE "unknown"

\* ColorHarmony.get_color_family
get_color_family(color) == FamilyOf(lower(color))

\* the rules of calculate_harmony_score on the lower-case colours c1, c2 and
\* their families, first match first
HarmonyOfFamilies(c1, c2, family1, family2) ==
  IF c1 = c2 THEN 8000
  ELSE IF c1 \in NeutralColors /\ c2 \in NeutralColors THEN 9000
  ELSE IF c1 \in NeutralColors \/ c2 \in NeutralColors THEN 8500
  ELSE IF c1 \in DOMAIN ComplementaryPairs /\ ComplementaryPairs[c1] = c2 THEN 9500
  ELSE IF c1 \in DOMAIN AnalogousRanges /\ c2 \in AnalogousRanges[c1] THEN 8500
  ELSE IF family1 = family2 /\ family1 # "unknown" THEN 8000
  ELSE IF family1 \in {"warm", "earth"} /\ family2 \in {"cool", "jewel"} THEN 5000
  ELSE 7000

\* calculate_harmony_score from c1 = color1.lower() and c2 = color2.lower() on
HarmonyOfLower(c1, c2) ==
  HarmonyOfFamilies(c1, c2, get_color_family(c1), get_color_family(c2))

\* ColorHarmony.calculate_harmony_score(color1, color2), scaled by 10^4
calculate_harmony_score(color1, color2) ==
  IF color1 = "unknown" \/ color2 = "unknown" THEN 6000
  ELSE HarmonyOfLower(lower(color1), lower(color2))

(***************************************************************************)
(* outfit_generator.py: StyleCompatibility                                 *)
(***************************************************************************)

\* STYLE_CATEGORIES, in the order of the table
StyleOrder == <<"minimal", "streetwear", "classic", "bohemian", "glam", "sporty", "business">>

StyleKeywords ==
  [minimal |-> {"simple", "clean", "basic", "neutral"},
   streetwear |-> {"urban", "casual", "edgy", "sporty"},
   classic |-> {"timeless", "elegant", "traditional", "sophisticated"},
   bohemian |-> {"boho", "flowy", "patterned", "natural"},
   glam |-> {"glamorous", "sparkly", "luxurious", "evening"},
   sporty |-> {"athletic", "active", "comfortable", "performance"},
   business |-> {"professional", "tailored", "sharp", "formal"}]

\* the place of the first largest element of a non-empty list: the element
\* that max() returns, and that a stable sort in decreasing order puts first
FirstMax(q) ==
  CHOOSE k \in 1..Len(q) :
    /\ \A j \in 1..Len(q) : q[j] <= q[k]
    /\ \A j \in 1..(k - 1) : q[j] < q[k]

\* category_scores of get_style_category: per category, in table order, the
\* size of the intersection of its keywords with the tags
CategoryScores(tag_set) ==
  <<>> \o [k \in 1..Len(StyleOrder) |->
             Cardinality(tag_set \cap StyleKeywords[StyleOrder[k]])]

\* StyleCompatibility.get_style_category: max() keeps the first category with
\* the largest keyword intersection
StyleCategoryOf(tags) ==
  StyleOrder[FirstMax(CategoryScores({lower(tags[i]) : i \in 1..Len(tags)}))]

\* the tag lists of a list of documents
TagListsOf(docs) == {docs[k].style_tags : k \in 1..Len(docs)}

\* get_style_category on the tag lists of S
StyleTableOf(S) == [tags \in S |-> StyleCategoryOf(tags)]

\* get_style_category on the tag lists of the catalogue, computed once
StyleTable == StyleTableOf(TagListsOf(Catalogue))

\* get_style_category(tags), read from the table when the table holds tags
StyleCategoryIn(table, tags) ==
  IF tags \in DOMAIN table THEN table[tags] ELSE StyleCategoryOf(tags)

get_style_category(tags) == StyleCategoryIn(StyleTable, tags)

CompatibleStyles ==
  {<<"minimal", "classic">>, <<"minimal", "business">>, <<"classic", "business">>,
   <<"streetwear", "sporty">>, <<"bohemian", "glam">>}

ClashingStyles ==
  {<<"sporty", "business">>, <<"streetwear", "glam">>, <<"bohemian", "business">>}

\* the rules of calculate_style_compatibility on the two style categories,
\* first match first
StyleScore(cat1, cat2) ==
  IF cat1 = cat2 THEN 10000
  ELSE IF <<cat1, cat2>> \in CompatibleStyles \/ <<cat2, cat1>> \in CompatibleStyles
       THEN 8000
  ELSE IF cat1 \in {"minimal", "classic"} \/ cat2 \in {"minimal", "classic"}
       THEN 7500
  ELSE IF <<cat1, cat2>> \in ClashingStyles \/ <<cat2, cat1>> \in ClashingStyles
       THEN 5000
  ELSE 7000

\* StyleCompatibility.calculate_style_compatibility(tags1, tags2), scaled by 10^4
calculate_style_compatibility(item1_tags, item2_tags) ==
  IF item1_tags = <<>> \/ item2_tags = <<>> THEN 7000
  ELSE StyleScore(get_style_category(item1_tags), get_style_category(item2_tags))

(***************************************************************************)
(* outfit_generator.py: outfit type and configuration                      *)
(***************************************************************************)

\* the keyword tests of _determine_outfit_type on o = occasion.lower(): the
\* first keyword group that matches decides
OutfitTypeOf(o) ==
  IF ContainsAny(o, {"wedding", "gala", "formal", "ceremony"}) THEN "formal"
  ELSE IF ContainsAny(o, {"meeting", "office", "work", "business", "interview"})
       THEN "business"
  ELSE IF ContainsAny(o, {"date", "romantic", "anniversary"}) THEN "date"
  ELSE IF ContainsAny(o, {"party", "celebration", "festival"}) THEN "party"
  ELSE IF ContainsAny(o, {"sport", "gym", "workout", "athletic"}) THEN "sport"
  ELSE IF ContainsAny(o, {"travel", "airport", "journey"}) THEN "travel"
  ELSE IF ContainsAny(o, {"casual", "relaxed", "everyday"}) THEN "casual"
  ELSE "business-casual"

\* EnhancedOutfitGenerator._determine_outfit_type
determine_outfit_type(occasion) == OutfitTypeOf(lower(occasion))

\* OutfitConfig.max_generation_attempts
max_generation_attempts == 100

\* EnhancedOutfitGenerator._get_outfit_config: the fields the generator reads
get_outfit_config(outfit_type) ==
  [min_items |-> IF outfit_type \in {"casual", "sport", "travel"} THEN 2 ELSE 3,
   max_items |-> IF outfit_type \in {"casual", "sport", "travel"} THEN 4
                 ELSE IF outfit_type \in {"formal", "party"} THEN 6 ELSE 5,
   max_generation_attempts |-> max_generation_attempts]

(***************************************************************************)
(* outfit_generator.py: item suitability                                   *)
(***************************************************************************)

\* _calculate_item_suitability: the category bonus applied to the score s
CategoryFactor(s, category) ==
  IF category \in {"top", "dress"} THEN (s * 11) \div 10 ELSE s

\* _calculate_item_suitability: the formality adjustment applied to the score s
FormalityFactor(s, outfit_type, item_formality) ==
  IF outfit_type = "formal" /\ item_formality # "formal" THEN (s * 7) \div 10
  ELSE IF outfit_type = "business" /\ item_formality \notin {"business", "business-casual"}
       THEN (s * 8) \div 10
       ELSE s

\* _calculate_item_suitability: the season adjustment applied to the score s
SeasonFactor(s, weather_temp, item_season) ==
  IF item_season # "all-season"
  THEN IF weather_temp < 15 /\ item_season \notin {"winter", "fall"} THEN (s * 7) \div 10
       ELSE IF weather_temp > 25 /\ item_season \notin {"summer", "spring"}
            THEN (s * 7) \div 10
            ELSE s
  ELSE s

\* _calculate_item_suitability: the weather-condition adjustment applied to the score s
ConditionFactor(s, condition, category) ==
  IF Contains(condition, "rain") /\ category \notin {"shoes", "outerwear"}
  THEN (s * 9) \div 10
  ELSE IF Contains(condition, "cold") /\ category \in {"shorts", "skirt"}
       THEN (s * 6) \div 10
       ELSE s

\* _calculate_item_suitability from the normalised category, the lower-case
\* formality and the lower-case season of the item: the score starts at 1.0
\* and takes the four adjustments in the order of the code
SuitabilityOf(category, item_formality, item_season, ctx) ==
  ConditionFactor(
    SeasonFactor(
      FormalityFactor(CategoryFactor(10000, category), ctx.outfit_type, item_formality),
      ctx.weather_profile.temp_c, item_season),
    ctx.weather_profile.condition, category)

\* EnhancedOutfitGenerator._calculate_item_suitability, scaled by 10^4.
\* ctx is the GenerationContext: occasion, weather_profile, outfit_type,
\* config, focus_item.
calculate_item_suitability(item, ctx) ==
  SuitabilityOf(NormCategory(item.category), lower(item.formality), lower(item.season), ctx)

(***************************************************************************)
(* outfit_generator.py: candidate selection                                *)
(***************************************************************************)

\* str(item.get("_id"))
ItemId(item) == item.id

\* EnhancedOutfitGenerator._categorize_items, read at one category:
\* the items of that normalised category, in wardrobe order
categorize_items(items, category) ==
  SelectSeq(items, LAMBDA it : NormCategory(it.category) = category)

\* EnhancedOutfitGenerator._get_required_categories
get_required_categories(ctx) ==
  IF ctx.outfit_type = "formal" THEN <<"dress", "shoes", "accessory">>
  ELSE IF ctx.outfit_type \in {"business", "business-casual"}
       THEN <<"top", "bottom", "shoes", "outerwear">>
       ELSE <<"top", "bottom", "shoes">>

\* the gate that also rejects a score of exactly 0.5
check_item_compatibility_at_threshold(new_item, existing_items) ==
  \/ existing_items = <<>>
  \/ /\ \A k \in 1..Len(existing_items) :
          ~(calculate_harmony_score(lower(new_item.color),
                                    lower(existing_items[k].color)) <= 5000)
     /\ \A k \in 1..Len(existing_items) :
          ~(calculate_style_compatibility(new_item.style_tags,
                                          existing_items[k].style_tags) <= 5000)

\* EnhancedOutfitGenerator._check_item_compatibility
check_item_compatibility(new_item, existing_items) ==
  \/ existing_items = <<>>
  \/ /\ \A k \in 1..Len(existing_items) :
          ~(calculate_harmony_score(lower(new_item.color),
                                    lower(existing_items[k].color)) < 5000)
     /\ \A k \in 1..Len(existing_items) :
          ~(calculate_style_compatibility(new_item.style_tags,
                                          existing_items[k].style_tags) < 5000)

\* scored_items.sort(reverse=True)[0]: the sort is stable, so the first item
\* with the largest suitability is picked
BestSuitable(cands, ctx) ==
  cands[FirstMax(<<>> \o [k \in 1..Len(cands) |-> calculate_item_suitability(cands[k], ctx)])]

\* the compatible item is appended and not blacklisted
SelectItem_not_blacklisted(selected_item, s) ==
  IF check_item_compatibility(selected_item, s.items)
  THEN [items |-> Append(s.items, selected_item), blacklist |-> s.blacklist]
  ELSE s

\* _select_base_items: selected_item is appended and blacklisted when it is
\* compatible with the base items
SelectItem(selected_item, s) ==
  IF check_item_compatibility(selected_item, s.items)
  THEN [items |-> Append(s.items, selected_item),
        blacklist |-> s.blacklist \cup {ItemId(selected_item)}]
  ELSE s

\* _select_base_items: the best of the candidates of one category, if any
SelectFrom(cands, s, ctx) ==
  IF cands = <<>> THEN s ELSE SelectItem(BestSuitable(cands, ctx), s)

\* one pass of the required-category loop of _select_base_items;
\* s is the pair of base_items and context.blacklisted_item_ids
SelectRequired(category, s, items, ctx) ==
  SelectFrom(SelectSeq(categorize_items(items, category),
                       LAMBDA it : ItemId(it) # "" /\ ItemId(it) \notin s.blacklist),
             s, ctx)

RECURSIVE SelectLoop(_, _, _, _)
SelectLoop(categories, s, items, ctx) ==
  IF categories = <<>> THEN s
  ELSE SelectLoop(Tail(categories), SelectRequired(Head(categories), s, items, ctx),
                  items, ctx)

\* _select_base_items before its loop: base_items holds the focus item, if
\* any, and the blacklist of the fresh context is empty
FirstSelection(ctx) ==
  [items |-> IF IsNone(ctx.focus_item) THEN <<>> ELSE <<ctx.focus_item.item>>,
   blacklist |-> {}]

\* EnhancedOutfitGenerator._select_base_items, on a fresh context
select_base_items(items, ctx) ==
  SelectLoop(get_required_categories(ctx), FirstSelection(ctx), items, ctx)

\* the characters of the model's strings, in code-point order
CharOrder == " -0123456789_abcdefghijklmnopqrstuvwxyz|"

CharRankTable ==
  [c \in {CharAt(CharOrder, p) : p \in 1..Len(CharOrder)} |->
     CHOOSE p \in 1..Len(CharOrder) : CharAt(CharOrder, p) = c]

CharRank(c) == CharRankTable[c]

\* a < b on strings: the first differing character decides
StrLess(a, b) ==
  LET common == IF Len(a) < Len(b) THEN Len(a) ELSE Len(b)
      diff == {i \in 1..common : CharAt(a, i) # CharAt(b, i)}
      first == CHOOSE i \in diff : \A j \in diff : i <= j
  IN  IF diff = {} THEN Len(a) < Len(b)
      ELSE CharRank(CharAt(a, first)) < CharRank(CharAt(b, first))

SynergyPairs ==
  [k \in {<<"top", "bottom">>, <<"dress", "shoes">>, <<"top", "outerwear">>,
          <<"bottom", "shoes">>, <<"accessory", "top">>, <<"accessory", "dress">>,
          <<"accessory", "bottom">>} |->
     IF k \in {<<"top", "bottom">>, <<"dress", "shoes">>} THEN 10000
     ELSE IF k \in {<<"top", "outerwear">>, <<"bottom", "shoes">>} THEN 9000
     ELSE IF k \in {<<"accessory", "top">>, <<"accessory", "dress">>} THEN 8000
     ELSE 7000]

\* synergy_pairs.get(key, 0.5)
SynergyAt(key) == IF key \in DOMAIN SynergyPairs THEN SynergyPairs[key] ELSE 5000

\* EnhancedOutfitGenerator._get_category_synergy, scaled by 10^4: the table is
\* read at the pair put in string order
get_category_synergy(cat1, cat2) ==
  SynergyAt(IF StrLess(cat1, cat2) THEN <<cat1, cat2>> ELSE <<cat2, cat1>>)

\* the value "combined" of _calculate_compatibility_score for one outfit item
CombinedScore(item, outfit_item) ==
  (calculate_harmony_score(lower(item.color), lower(outfit_item.color)) * 4) \div 10
  + (calculate_style_compatibility(item.style_tags, outfit_item.style_tags) * 4) \div 10
  + (get_category_synergy(NormCategory(item.category),
                          NormCategory(outfit_item.category)) * 2) \div 10

RECURSIVE SumSeq(_)
SumSeq(q) == IF q = <<>> THEN 0 ELSE Head(q) + SumSeq(Tail(q))

\* EnhancedOutfitGenerator._calculate_compatibility_score: the mean, as <<sum, count>>
calculate_compatibility_score(item, outfit_items, ctx) ==
  IF outfit_items = <<>> THEN <<calculate_item_suitability(item, ctx), 1>>
  ELSE <<SumSeq([k \in 1..Len(outfit_items) |-> CombinedScore(item, outfit_items[k])]),
         Len(outfit_items)>>

\* EnhancedOutfitGenerator._get_complementary_categories
get_complementary_categories(ctx) ==
  <<"accessory">>
  \o (IF ctx.weather_profile.temp_c < 15 THEN <<"outerwear">> ELSE <<>>)
  \o (IF Contains(ctx.weather_profile.condition, "rain") THEN <<"outerwear">> ELSE <<>>)
  \o (IF ctx.outfit_type \in {"formal", "party", "date"}
      THEN <<"accessory", "accessory">> ELSE <<>>)

\* _add_complementary_items: best_item, the candidate with the score best_score,
\* is appended and blacklisted when best_score is above 0 and above 0.6
AddItem(best_item, best_score, s) ==
  IF best_score[1] > 0 /\ best_score[1] > 6000 * best_score[2]
  THEN [items |-> Append(s.items, best_item),
        blacklist |-> s.blacklist \cup {ItemId(best_item)}]
  ELSE s

\* _add_complementary_items: the candidate at the place best of the scored
\* candidates
AddAt(cands, scores, best, s) == AddItem(cands[best], scores[best], s)

\* _add_complementary_items: the candidates with their compatibility scores;
\* the scores of one pass share their count, so the sums are compared
AddScored(cands, scores, s) ==
  AddAt(cands, scores, FirstMax(<<>> \o [k \in 1..Len(scores) |-> scores[k][1]]), s)

\* _add_complementary_items: the best of the candidates of one category, if any
AddFrom(cands, s, ctx) ==
  IF cands = <<>> THEN s
  ELSE AddScored(cands,
                 <<>> \o [k \in 1..Len(cands) |->
                            calculate_compatibility_score(cands[k], s.items, ctx)],
                 s)

\* one pass of the loop of _add_complementary_items: the first candidate with
\* the largest score is kept (strict >, best_score starts at 0) and added
\* when the score exceeds 0.6
AddComplementary(category, s, items, ctx) ==
  AddFrom(SelectSeq(categorize_items(items, category),
                    LAMBDA it : ItemId(it) \notin s.blacklist),
          s, ctx)

RECURSIVE AddLoop(_, _, _, _)
AddLoop(categories, s, items, ctx) ==
  IF categories = <<>> THEN s
  ELSE AddLoop(Tail(categories), AddComplementary(Head(categories), s, items, ctx),
               items, ctx)

\* EnhancedOutfitGenerator._add_complementary_items
add_complementary_items(s, items, ctx) ==
  AddLoop(get_complementary_categories(ctx), s, items, ctx)

\* the list is returned as it is
deduplicate_items_keep_all(items) == items

RECURSIVE deduplicate_items(_)
\* EnhancedOutfitGenerator._deduplicate_items: the first occurrence of each id is kept
deduplicate_items(items) ==
  IF items = <<>> THEN <<>>
  ELSE LET front == deduplicate_items(SubSeq(items, 1, Len(items) - 1))
           last == items[Len(items)]
       IN  IF ItemId(last) # "" /\ \A k \in 1..Len(front) : ItemId(front[k]) # ItemId(last)
           THEN Append(front, last)
           ELSE front

(***************************************************************************)
(* outfit_generator.py: outfit scoring                                     *)
(***************************************************************************)

\* has_outerwear of _calculate_weather_adaptation_bonus
HasOuterwear(outfit_items) ==
  \E k \in 1..Len(outfit_items) : NormCategory(outfit_items[k].category) = "outerwear"

\* has_waterproof of _calculate_weather_adaptation_bonus
HasWaterproof(outfit_items) ==
  \E k \in 1..Len(outfit_items) :
     \/ \E t \in 1..Len(outfit_items[k].style_tags) :
           outfit_items[k].style_tags[t] = "waterproof"
     \/ Contains(lower(outfit_items[k].category), "boot")

\* _calculate_weather_adaptation_bonus: the rain adjustment applied to the bonus
RainBonus(bonus, outfit_items, ctx) ==
  IF Contains(ctx.weather_profile.condition, "rain") /\ HasWaterproof(outfit_items)
  THEN (bonus * 11) \div 10
  ELSE bonus

\* the cold-weather factors 1.2 and 0.8 exchanged
calculate_weather_adaptation_bonus_swapped(outfit_items, ctx) ==
  RainBonus(IF ctx.weather_profile.temp_c < 15
            THEN IF HasOuterwear(outfit_items) THEN (10000 * 8) \div 10
                 ELSE (10000 * 12) \div 10
            ELSE 10000,
            outfit_items, ctx)

\* EnhancedOutfitGenerator._calculate_weather_adaptation_bonus, scaled by 10^4
calculate_weather_adaptation_bonus(outfit_items, ctx) ==
  RainBonus(IF ctx.weather_profile.temp_c < 15
            THEN IF HasOuterwear(outfit_items) THEN (10000 * 12) \div 10
                 ELSE (10000 * 8) \div 10
            ELSE 10000,
            outfit_items, ctx)

\* EnhancedOutfitGenerator._calculate_occasion_bonus, scaled by 10^4
calculate_occasion_bonus(outfit_items, ctx) ==
  LET formal_count == Cardinality({k \in 1..Len(outfit_items) :
                                     outfit_items[k].formality = "formal"})
      business_count == Cardinality({k \in 1..Len(outfit_items) :
                                       outfit_items[k].formality \in
                                         {"business", "business-casual"}})
  IN  IF ctx.outfit_type = "formal"
      THEN IF formal_count >= 2 THEN 12000 ELSE IF formal_count >= 1 THEN 10000 ELSE 8000
      ELSE IF ctx.outfit_type \in {"business", "business-casual"} /\ business_count >= 2
           THEN 11000
           ELSE 10000

\* the "compatibility" of one pair in _calculate_outfit_score
PairCompatibility(item1, item2) ==
  (calculate_harmony_score(lower(item1.color), lower(item2.color))
   + calculate_style_compatibility(item1.style_tags, item2.style_tags)) \div 2

\* the list "scores" of _calculate_outfit_score: one suitability per item, one
\* compatibility per pair i < j, the weather bonus, the occasion bonus
OutfitScores(outfit_items, ctx) ==
  LET n == Len(outfit_items)
      pairs == SelectSeq([k \in 1..(n * n) |-> <<((k - 1) \div n) + 1, ((k - 1) % n) + 1>>],
                         LAMBDA ij : ij[1] < ij[2])
  IN  [k \in 1..n |-> calculate_item_suitability(outfit_items[k], ctx)]
      \o [k \in 1..Len(pairs) |->
            PairCompatibility(outfit_items[pairs[k][1]], outfit_items[pairs[k][2]])]
      \o <<calculate_weather_adaptation_bonus(outfit_items, ctx)>>
      \o <<calculate_occasion_bonus(outfit_items, ctx)>>

\* float(np.mean(scores)), as <<sum, count>>
Mean(scores) == <<SumSeq(scores), Len(scores)>>

\* the score without the "len(outfit_items) < min_items" return
calculate_outfit_score_no_min_test(outfit_items, ctx) ==
  Mean(<<>> \o OutfitScores(outfit_items, ctx))

\* EnhancedOutfitGenerator._calculate_outfit_score: 0.0 below min_items, else
\* the mean of the scores, as <<sum, count>>
calculate_outfit_score(outfit_items, ctx) ==
  IF Len(outfit_items) < ctx.config.min_items THEN <<0, 1>>
  ELSE Mean(<<>> \o OutfitScores(outfit_items, ctx))

\* round(outfit_score, 3), in thousandths.  outfit_score is the float that
\* np.mean returns, which can differ from the exact mean in its last bits: the
\* nearest thousandth is returned, and when the exact mean lies half way
\* between two thousandths the float may fall on either side.
Round3(score) ==
  LET num == score[1]
      den == 10 * score[2]
      q == num \div den
      r == num % den
  IN  IF 2 * r < den THEN {q}
      ELSE IF 2 * r > den THEN {q + 1}
      ELSE {q, q + 1}

\* the ids of the image files of a list of items
ImageFileIds(outfit_items) ==
  {outfit_items[k].image_file_id.str :
     k \in {j \in 1..Len(outfit_items) : ~IsNone(outfit_items[j].image_file_id)}}

\* db_client.get_image_base64(file_id) inside try/except: the encoded image,
\* or None when the lookup raises; failed holds the ids whose lookup raises
get_image_base64(file_id, failed) ==
  IF file_id \in failed THEN PyNone ELSE PyStr("base64:" \o file_id)

\* the item dropped from the response when its image lookup raises
to_front_item_or_nothing(doc, failed) ==
  IF ~IsNone(doc.image_file_id) /\ doc.image_file_id.str \in failed
  THEN <<>>
  ELSE <<[id |-> ItemId(doc),
          image_file_id |-> doc.image_file_id,
          image_base64 |-> IF IsNone(doc.image_file_id) THEN PyNone
                           ELSE get_image_base64(doc.image_file_id.str, failed),
          category |-> doc.category,
          color |-> doc.color,
          style_tags |-> doc.style_tags,
          formality |-> doc.formality,
          season |-> doc.season]>>

\* EnhancedOutfitGenerator._to_front_item, after the image lookup of
\* _format_outfit_for_response: image_base64 is set for an item with an
\* image_file_id, and is None for an item without one; the result is a list
\* of one item
to_front_item(doc, failed) ==
  <<[id |-> ItemId(doc),
     image_file_id |-> doc.image_file_id,
     image_base64 |-> IF IsNone(doc.image_file_id) THEN PyNone
                      ELSE get_image_base64(doc.image_file_id.str, failed),
     category |-> doc.category,
     color |-> doc.color,
     style_tags |-> doc.style_tags,
     formality |-> doc.formality,
     season |-> doc.season]>>

RECURSIVE FrontItems(_, _)
\* [self._to_front_item(item) for item in outfit_items]
FrontItems(outfit_items, failed) ==
  IF outfit_items = <<>> THEN <<>>
  ELSE to_front_item(Head(outfit_items), failed) \o FrontItems(Tail(outfit_items), failed)

\* EnhancedOutfitGenerator._format_outfit_for_response: the fields of the
\* response that derive from the items and the score; rounded is the value of
\* round(outfit_score, 3), failed the image files whose lookup raises
format_outfit_for_response(outfit_items, ctx, rounded, failed) ==
  [items |-> FrontItems(outfit_items, failed),
   score |-> rounded,
   item_count |-> Len(outfit_items),
   refined |-> FALSE,
   occasion_suitability |-> calculate_occasion_bonus(outfit_items, ctx),
   weather_adaptation |-> calculate_weather_adaptation_bonus(outfit_items, ctx)]

(***************************************************************************)
(* outfit_generator.py: EnhancedCache                                      *)
(***************************************************************************)

\* A Python dict is a sequence of <<key, value>> pairs in insertion order.
DictKeys(d) == {d[k][1] : k \in 1..Len(d)}

\* d[key], key in d
DictGet(d, key) == d[CHOOSE k \in 1..Len(d) : d[k][1] = key][2]

\* d[key] = value: an existing key keeps its place, a new key goes last
DictSet(d, key, value) ==
  IF key \in DictKeys(d)
  THEN [k \in 1..Len(d) |-> IF d[k][1] = key THEN <<key, value>> ELSE d[k]]
  ELSE Append(d, <<key, value>>)

\* d.pop(key, None)
DictPop(d, key) == SelectSeq(d, LAMBDA kv : kv[1] # key)

\* EnhancedCache.__init__
NewCache(ttl, size) ==
  [ttl_seconds |-> ttl, max_size |-> size, data |-> <<>>, access_times |-> <<>>]

\* an entry counts as expired at the very second it expires
CacheGetValue_expired_at_ttl(cache, key, t) ==
  IF key \notin DictKeys(cache.data) THEN PyNone
  ELSE IF DictGet(cache.data, key).expires_at <= t THEN PyNone
  ELSE [value |-> DictGet(cache.data, key).value]

\* EnhancedCache.get: the value returned, None for a miss or an expired entry
CacheGetValue(cache, key, t) ==
  IF key \notin DictKeys(cache.data) THEN PyNone
  ELSE IF DictGet(cache.data, key).expires_at < t THEN PyNone
  ELSE [value |-> DictGet(cache.data, key).value]

\* EnhancedCache.get: the cache after the call; an expired entry is removed
\* from both maps, a hit refreshes the access time
CacheAfterGet(cache, key, t) ==
  IF key \notin DictKeys(cache.data) THEN cache
  ELSE IF DictGet(cache.data, key).expires_at < t
       THEN [cache EXCEPT !.data = DictPop(@, key), !.access_times = DictPop(@, key)]
       ELSE [cache EXCEPT !.access_times = DictSet(@, key, t)]

\* max in place of min: the key accessed last
OldestKey_newest(access_times) ==
  access_times[CHOOSE k \in 1..Len(access_times) :
                 /\ \A j \in 1..Len(access_times) : access_times[k][2] >= access_times[j][2]
                 /\ \A j \in 1..(k - 1) : access_times[j][2] < access_times[k][2]][1]

\* min(self._access_times.items(), key=lambda x: x[1])[0]: the first key, in
\* insertion order, with the smallest access time
OldestKey(access_times) ==
  access_times[CHOOSE k \in 1..Len(access_times) :
                 /\ \A j \in 1..Len(access_times) : access_times[k][2] <= access_times[j][2]
                 /\ \A j \in 1..(k - 1) : access_times[j][2] > access_times[k][2]][1]

\* EnhancedCache.set
CacheAfterSet(cache, key, value, t) ==
  LET evicted == IF Len(cache.data) >= cache.max_size
                 THEN [cache EXCEPT !.data = DictPop(@, OldestKey(cache.access_times)),
                                    !.access_times = DictPop(@, OldestKey(cache.access_times))]
                 ELSE cache
  IN  [evicted EXCEPT
         !.data = DictSet(@, key, [value |-> value, expires_at |-> t + cache.ttl_seconds]),
         !.access_times = DictSet(@, key, t)]

\* EnhancedCache.set: oldest_key, the key the call evicts, None below capacity
CacheEvicted(cache) ==
  IF Len(cache.data) >= cache.max_size THEN PyStr(OldestKey(cache.access_times)) ELSE PyNone

\* EnhancedCache.clear
CacheAfterClear(cache) == [cache EXCEPT !.data = <<>>, !.access_times = <<>>]

\* EnhancedOutfitGenerator.__init__: OUTFIT_CACHE_TTL defaults to 30 seconds
DefaultTtl == 30

\* EnhancedOutfitGenerator.__init__: EnhancedCache(max_size=128)
DefaultMaxSize == 128

(***************************************************************************)
(* outfit_generator.py: EnhancedOutfitGenerator.generate_outfits           *)
(***************************************************************************)

\* the single user of the model
UserId == "u1"

\* occasion = (occasion or "casual day").strip()
SanitizeOccasion(occasion) ==
  Strip(IF IsNone(occasion) \/ occasion.str = "" THEN "casual day" ELSE occasion.str)

\* f"{user_id}|{occasion}|{wp.bucket}|{num_outfits}|{focus_item_id or ''}"
CacheKey(user_id, occasion, wp, num_outfits, focus_item_id) ==
  user_id \o "|" \o occasion \o "|" \o wp.bucket \o "|" \o ToString(num_outfits) \o "|"
  \o (IF IsNone(focus_item_id) THEN "" ELSE focus_item_id.str)

\* next((item for item in user_items if str(item.get("_id")) == str(focus_item_id)), None)
FindFocusItem(items, focus_item_id) ==
  IF IsNone(focus_item_id) \/ focus_item_id.str = "" THEN PyNone
  ELSE IF \E k \in 1..Len(items) : ItemId(items[k]) = focus_item_id.str
       THEN [item |-> items[CHOOSE k \in 1..Len(items) :
                              /\ ItemId(items[k]) = focus_item_id.str
                              /\ \A j \in 1..(k - 1) : ItemId(items[j]) # focus_item_id.str]]
       ELSE PyNone

\* GenerationContext(...) from wp, outfit_type and focus_item; the config is
\* the one of the outfit type
ContextOf(occasion, wp, outfit_type, focus_item) ==
  [occasion |-> occasion,
   weather_profile |-> wp,
   outfit_type |-> outfit_type,
   config |-> get_outfit_config(outfit_type),
   focus_item |-> focus_item]

\* GenerationContext(...) of one attempt, without the blacklist
Context(occasion, weather, items, focus_item_id) ==
  ContextOf(occasion, build_weather_profile(weather), determine_outfit_type(occasion),
            FindFocusItem(items, focus_item_id))

RECURSIVE SortedStrings(_)
\* sorted(...) of a list of strings
SortedStrings(q) ==
  IF q = <<>> THEN <<>>
  ELSE LET front == SortedStrings(SubSeq(q, 1, Len(q) - 1))
           last == q[Len(q)]
           pos == Cardinality({k \in 1..Len(front) : ~StrLess(last, front[k])})
       IN  SubSeq(front, 1, pos) \o <<last>> \o SubSeq(front, pos + 1, Len(front))

\* tuple(sorted(str(item.get("_id")) for item in outfit_items))
ItemIds(outfit_items) ==
  SortedStrings([k \in 1..Len(outfit_items) |-> ItemId(outfit_items[k])])

\* the iteration without the test "item_ids in used_outfit_combinations"
OutcomeOfScore_no_duplicate_test(outfit_items, outfit_score, item_ids, used) ==
  IF outfit_score[1] < 5000 * outfit_score[2] THEN [kind |-> "low_score"]
  ELSE [kind |-> "accepted",
        outfit_items |-> outfit_items,
        outfit_score |-> outfit_score,
        item_ids |-> item_ids]

\* the iteration with the score test at 0.6
OutcomeOfScore_below_six_tenths(outfit_items, outfit_score, item_ids, used) ==
  IF item_ids \in used THEN [kind |-> "duplicate"]
  ELSE IF outfit_score[1] < 6000 * outfit_score[2] THEN [kind |-> "low_score"]
  ELSE [kind |-> "accepted",
        outfit_items |-> outfit_items,
        outfit_score |-> outfit_score,
        item_ids |-> item_ids]

\* the end of one iteration, from outfit_score and item_ids on: a combination
\* already used and a score below 0.5 are discarded
OutcomeOfScore(outfit_items, outfit_score, item_ids, used) ==
  IF item_ids \in used THEN [kind |-> "duplicate"]
  ELSE IF outfit_score[1] < 5000 * outfit_score[2] THEN [kind |-> "low_score"]
  ELSE [kind |-> "accepted",
        outfit_items |-> outfit_items,
        outfit_score |-> outfit_score,
        item_ids |-> item_ids]

\* one iteration from the de-duplicated outfit_items on: fewer than min_items
\* items are discarded
OutcomeOfItems(outfit_items, ctx, used) ==
  IF Len(outfit_items) < ctx.config.min_items THEN [kind |-> "few_items"]
  ELSE OutcomeOfScore(outfit_items, calculate_outfit_score(outfit_items, ctx),
                      ItemIds(outfit_items), used)

\* the iteration without the test "len(base_items) < config.min_items"
OutcomeOfBase_no_min_test(base, items, ctx, used) ==
  OutcomeOfItems(deduplicate_items(add_complementary_items(base, items, ctx).items),
                 ctx, used)

\* one iteration from base_items on: fewer than min_items base items are
\* discarded
OutcomeOfBase(base, items, ctx, used) ==
  IF Len(base.items) < ctx.config.min_items THEN [kind |-> "few_base"]
  ELSE OutcomeOfItems(deduplicate_items(add_complementary_items(base, items, ctx).items),
                      ctx, used)

\* the body of one iteration of the generation loop: the outcome of the attempt
AttemptOutcome(items, ctx, used) ==
  OutcomeOfBase(select_base_items(items, ctx), items, ctx, used)

\* the list is left in the order of acceptance
SortByScore_unsorted(outfits) == outfits

RECURSIVE SortByScore(_)
\* outfits.sort(key=score, reverse=True): stable insertion by decreasing score
SortByScore(outfits) ==
  IF outfits = <<>> THEN <<>>
  ELSE LET front == SortByScore(SubSeq(outfits, 1, Len(outfits) - 1))
           last == outfits[Len(outfits)]
           pos == Cardinality({k \in 1..Len(front) : front[k].score >= last.score})
       IN  SubSeq(front, 1, pos) \o <<last>> \o SubSeq(front, pos + 1, Len(front))

\* outfits[:num_outfits], num_outfits >= 0
Truncate(outfits, num_outfits) ==
  SubSeq(outfits, 1, IF num_outfits < Len(outfits) THEN num_outfits ELSE Len(outfits))

(***************************************************************************)
(* State                                                                   *)
(***************************************************************************)

VARIABLES
  db,          \* the wardrobe documents of the user, as the store lists them
  now,         \* time.time(), in seconds
  cache,       \* EnhancedOutfitGenerator._cache
  pc,          \* position of the request in generate_outfits
  req,         \* the arguments of the running call
  cached,      \* what self._cache.get(cache_key) returned to the running call
  user_items,  \* user_items of the running call
  context,     \* wp, outfit_type, config and focus_item of the running call
  attempt,     \* number of attempts the loop has run
  outfits,     \* the accepted outfits
  used_outfit_combinations,
  result,      \* the list the call returned
  arg,         \* argument of a function applied on its own
  ret,         \* what that function returned
  step,        \* position inside one generation attempt run statement by statement
  sel,         \* the item list and context.blacklisted_item_ids of that attempt
  threads,     \* the cache calls of concurrent threads, each with its locals
  accessed     \* per cache key, the time of its latest set or successful get

vars == <<db, now, cache, pc, req, cached, user_items, context, attempt, outfits,
          used_outfit_combinations, result, arg, ret, step, sel, threads, accessed>>

\* the variables of a generate_outfits call
callVars == <<pc, req, cached, user_items, context, attempt, outfits,
              used_outfit_combinations, result>>

\* the variables generate_outfits does not touch
aside == <<arg, ret, step, sel, threads, accessed>>

\* no function is being applied on its own
NoArg == [fn |-> "none"]

NoRequest == [occasion |-> "", weather |-> [temp_c |-> PyNone, condition |-> ""],
              num_outfits |-> 0, focus_item_id |-> PyNone]

NoContext == Context("", NoRequest.weather, <<>>, PyNone)

\* no attempt is being run statement by statement
NoStep == [phase |-> "none", categories |-> <<>>]

NoSelection == [items |-> <<>>, blacklist |-> {}]

\* no call of generate_outfits has been made
NoCall ==
  /\ pc = "idle"
  /\ req = NoRequest
  /\ cached = PyNone
  /\ user_items = <<>>
  /\ context = NoContext
  /\ attempt = 0
  /\ outfits = <<>>
  /\ used_outfit_combinations = {}
  /\ result = <<>>

\* nothing runs beside generate_outfits
NothingAside ==
  /\ arg = NoArg
  /\ ret = NoArg
  /\ step = NoStep
  /\ sel = NoSelection
  /\ threads = <<>>
  /\ accessed = <<>>

Init ==
  /\ db \in Wardrobes
  /\ now = 0
  /\ cache = NewCache(DefaultTtl, DefaultMaxSize)
  /\ NoCall
  /\ NothingAside

\* the cache key of a call
KeyOf(r) ==
  CacheKey(UserId, r.occasion, build_weather_profile(r.weather), r.num_outfits,
           r.focus_item_id)

Request(occasion, weather, num_outfits, focus_item_id) ==
  [occasion |-> SanitizeOccasion(occasion), weather |-> weather,
   num_outfits |-> num_outfits, focus_item_id |-> focus_item_id]

\* generate_outfits with the sanitised arguments r: the cache holds the key
\* and the cached list is returned
ReturnCached(r) ==
  /\ pc = "idle"
  /\ ~IsNone(CacheGetValue(cache, KeyOf(r), now))
  /\ req' = r
  /\ cached' = CacheGetValue(cache, KeyOf(r), now)
  /\ cache' = CacheAfterGet(cache, KeyOf(r), now)
  /\ result' = CacheGetValue(cache, KeyOf(r), now).value
  /\ pc' = "done"
  /\ UNCHANGED <<db, now, user_items, context, attempt, outfits, used_outfit_combinations>>
  /\ UNCHANGED aside

\* generate_outfits, answered from the cache
CallCached(occasion, weather, num_outfits, focus_item_id) ==
  ReturnCached(Request(occasion, weather, num_outfits, focus_item_id))

\* generate_outfits with the sanitised arguments r and the item list read from
\* the wardrobe: on a cache miss with no items, [] is returned
ReturnEmpty(r, items) ==
  /\ pc = "idle"
  /\ IsNone(CacheGetValue(cache, KeyOf(r), now))
  /\ items = <<>>
  /\ req' = r
  /\ cached' = PyNone
  /\ cache' = CacheAfterGet(cache, KeyOf(r), now)
  /\ user_items' = <<>>
  /\ result' = <<>>
  /\ pc' = "done"
  /\ UNCHANGED <<db, now, context, attempt, outfits, used_outfit_combinations>>
  /\ UNCHANGED aside

\* generate_outfits on a cache miss with an empty wardrobe: return []
CallEmpty(occasion, weather, num_outfits, focus_item_id) ==
  ReturnEmpty(Request(occasion, weather, num_outfits, focus_item_id), get_user_items(db))

\* generate_outfits without the "if not user_items" return
EnterLoop_no_empty_test(r, items) ==
  /\ pc = "idle"
  /\ IsNone(CacheGetValue(cache, KeyOf(r), now))
  /\ req' = r
  /\ cached' = PyNone
  /\ cache' = CacheAfterGet(cache, KeyOf(r), now)
  /\ user_items' = items
  /\ context' = Context(r.occasion, r.weather, items, r.focus_item_id)
  /\ attempt' = 0
  /\ outfits' = <<>>
  /\ used_outfit_combinations' = {}
  /\ pc' = "loop"
  /\ UNCHANGED <<db, now, result>>
  /\ UNCHANGED aside

\* generate_outfits with the sanitised arguments r and the item list read from
\* the wardrobe: on a cache miss with items, the context is prepared and the
\* generation loop is entered
EnterLoop(r, items) ==
  /\ pc = "idle"
  /\ IsNone(CacheGetValue(cache, KeyOf(r), now))
  /\ items # <<>>
  /\ req' = r
  /\ cached' = PyNone
  /\ cache' = CacheAfterGet(cache, KeyOf(r), now)
  /\ user_items' = items
  /\ context' = Context(r.occasion, r.weather, items, r.focus_item_id)
  /\ attempt' = 0
  /\ outfits' = <<>>
  /\ used_outfit_combinations' = {}
  /\ pc' = "loop"
  /\ UNCHANGED <<db, now, result>>
  /\ UNCHANGED aside

\* generate_outfits on a cache miss with items: enter the generation loop
CallGenerate(occasion, weather, num_outfits, focus_item_id) ==
  EnterLoop(Request(occasion, weather, num_outfits, focus_item_id), get_user_items(db))

\* the end of one iteration: an accepted outfit is formatted, its image
\* lookups succeeding or raising, appended to outfits, and its combination is
\* recorded; any other outcome is "continue"
Record(out) ==
  /\ attempt' = attempt + 1
  /\ IF out.kind = "accepted"
     THEN /\ \E rounded \in Round3(out.outfit_score),
                failed \in SUBSET ImageFileIds(out.outfit_items) :
               outfits' = Append(outfits,
                                 format_outfit_for_response(out.outfit_items, context,
                                                            rounded, failed))
          /\ used_outfit_combinations' = used_outfit_combinations \cup {out.item_ids}
     ELSE UNCHANGED <<outfits, used_outfit_combinations>>
  /\ UNCHANGED <<db, now, cache, pc, req, cached, user_items, context, result>>
  /\ UNCHANGED aside

\* the loop with one blacklist for the whole call: the items of the accepted
\* outfits stay blacklisted in the later attempts
Attempt_shared_blacklist ==
  /\ pc = "loop"
  /\ attempt < context.config.max_generation_attempts
  /\ Len(outfits) < req.num_outfits
  /\ Record(OutcomeOfBase(
              SelectLoop(get_required_categories(context),
                         [items |-> FirstSelection(context).items,
                          blacklist |-> UNION {{c[k] : k \in 1..Len(c)} :
                                                 c \in used_outfit_combinations}],
                         user_items, context),
              user_items, context, used_outfit_combinations))

\* the loop without the "len(outfits) >= num_outfits" break: it goes on to the
\* next attempt although enough outfits are accepted
Attempt_no_break ==
  /\ pc = "loop"
  /\ attempt < context.config.max_generation_attempts
  /\ Record(AttemptOutcome(user_items, context, used_outfit_combinations))

\* one iteration of "for attempt in range(config.max_generation_attempts)"
Attempt ==
  /\ pc = "loop"
  /\ attempt < context.config.max_generation_attempts
  /\ Len(outfits) < req.num_outfits
  /\ Record(AttemptOutcome(user_items, context, used_outfit_combinations))

\* _enhanced_gemini_refine: each outfit gets the enrichment fields, or is left
\* as it is when there is no API key, the call raises or the answer is malformed
Refined(list, flags) == [k \in 1..Len(list) |-> [list[k] EXCEPT !.refined = flags[k]]]

\* the list is cached and returned
ReturnList(final) ==
  /\ result' = final
  /\ cache' = CacheAfterSet(cache, KeyOf(req), final, now)
  /\ pc' = "done"
  /\ UNCHANGED <<db, now, req, cached, user_items, context, attempt, outfits,
                 used_outfit_combinations>>
  /\ UNCHANGED aside

\* the sorted and truncated list is refined, outfit by outfit
RefineAndReturn(list) ==
  \E flags \in [1..Len(list) -> BOOLEAN] : ReturnList(Refined(list, flags))

\* the loop has ended: sort, truncate, refine, cache and return
Finish ==
  /\ pc = "loop"
  /\ \/ attempt = context.config.max_generation_attempts
     \/ Len(outfits) >= req.num_outfits
  /\ RefineAndReturn(Truncate(SortByScore(outfits), req.num_outfits))

\* a request whose wardrobe is empty
EmptyWardrobeCall ==
  \E o \in Occasions, w \in Weathers, n \in NumOutfits, f \in FocusIds : CallEmpty(o, w, n, f)

\* a request that enters the generation loop
GenerateCall ==
  \E o \in Occasions, w \in Weathers, n \in NumOutfits, f \in FocusIds :
     CallGenerate(o, w, n, f)

\* one request served by a newly constructed generator
Next ==
  \/ EmptyWardrobeCall
  \/ GenerateCall
  \/ Attempt
  \/ Finish

Spec == Init /\ [][Next]_vars

\* the for loop moves on to its next iteration.  Under Next the steps that
\* advance the attempt counter are exactly the Attempt steps, and Attempt is
\* enabled exactly when Iterate is.
Iterate ==
  /\ pc = "loop"
  /\ attempt < context.config.max_generation_attempts
  /\ Len(outfits) < req.num_outfits
  /\ attempt' = attempt + 1

\* generate_outfits is sequential code: a call that has entered it keeps
\* running, iteration after iteration, until it returns
FairSpec == Spec /\ WF_attempt(Iterate) /\ WF_vars(Finish)

(***************************************************************************)
(* _calculate_outfit_score applied to item lists of every length           *)
(***************************************************************************)

\* the longest item list handed to _calculate_outfit_score
MaxOutfit == 3

RECURSIVE ItemLists(_)
\* the lists of at most n wardrobe items, repetitions included
ItemLists(n) ==
  IF n = 0 THEN {<<>>}
  ELSE LET shorter == ItemLists(n - 1)
       IN  shorter \cup {Append(l, UserItem(Catalogue[k])) :
                           l \in shorter, k \in 1..Len(Catalogue)}

\* the contexts of the requests of the model
Contexts == {Context(SanitizeOccasion(o), w, <<>>, PyNone) : o \in Occasions, w \in Weathers}

\* a function about to be applied on its own to the argument a
Applying(a) ==
  /\ db = <<>>
  /\ now = 0
  /\ cache = NewCache(DefaultTtl, DefaultMaxSize)
  /\ NoCall
  /\ arg = a
  /\ ret = NoArg
  /\ step = NoStep
  /\ sel = NoSelection
  /\ threads = <<>>
  /\ accessed = <<>>

\* the function applied on its own has returned r
Returning(r) ==
  /\ ret' = r
  /\ UNCHANGED <<db, now, cache, arg, step, sel, threads, accessed>>
  /\ UNCHANGED callVars

InitScore ==
  \E l \in ItemLists(MaxOutfit), c \in Contexts :
     Applying([fn |-> "calculate_outfit_score", outfit_items |-> l, context |-> c])

\* self._calculate_outfit_score(outfit_items, context)
CalculateOutfitScore ==
  /\ arg.fn = "calculate_outfit_score"
  /\ ret = NoArg
  /\ Returning([fn |-> "calculate_outfit_score",
                value |-> calculate_outfit_score(arg.outfit_items, arg.context)])

NextScore == CalculateOutfitScore

SpecScore == InitScore /\ [][NextScore]_vars

(***************************************************************************)
(* normalize_category and normalize_color applied to raw values            *)
(***************************************************************************)

\* the longest string built from NormAlphabet
MaxLen == 3

\* blanks, and the letters of the colour alias "tan"
NormAlphabet == {" ", "\t", "T", "a", "n"}

RECURSIVE StringsUpTo(_)
\* the strings of at most n characters of NormAlphabet
StringsUpTo(n) ==
  IF n = 0 THEN {""}
  ELSE LET shorter == StringsUpTo(n - 1)
       IN  shorter \cup {w \o c : w \in shorter, c \in NormAlphabet}

\* raw values as a client or the image analysis may send them
RawValues ==
  {"T-Shirt", " Jeans ", "SNEAKERS", "Rain Boots", "sweater", "Evening Gown", "Kimono",
   "top", "bottom", "shoes", "dress", "accessory", "outerwear", "unknown",
   "Grey", " NAVY", "maroon", "Ivory ", "teal", "blue", "gray", "Off White"}

NormInputs == {PyNone} \cup {PyStr(w) : w \in StringsUpTo(MaxLen) \cup RawValues}

InitNorm ==
  \E f \in {"normalize_category", "normalize_color"}, v \in NormInputs :
     Applying([fn |-> f, value |-> v])

\* the function is applied to the value it returned; v is that value, r the
\* record of the second call
ApplyingAgain(v, r) ==
  /\ arg' = [fn |-> r.fn, value |-> PyStr(v)]
  /\ ret' = r
  /\ UNCHANGED <<db, now, cache, step, sel, threads, accessed>>
  /\ UNCHANGED callVars

\* normalize_category(cat)
NormalizeCategory ==
  /\ arg.fn = "normalize_category"
  /\ ret = NoArg
  /\ Returning([fn |-> "normalize_category", calls |-> 1,
                value |-> normalize_category(arg.value)])

\* normalize_category applied to the value it returned
NormalizeCategoryAgain ==
  /\ ret.fn = "normalize_category"
  /\ ret.calls = 1
  /\ ApplyingAgain(ret.value, [fn |-> "normalize_category", calls |-> 2,
                               value |-> normalize_category(PyStr(ret.value))])

\* normalize_color(c)
NormalizeColor ==
  /\ arg.fn = "normalize_color"
  /\ ret = NoArg
  /\ Returning([fn |-> "normalize_color", calls |-> 1,
                value |-> normalize_color(arg.value)])

\* normalize_color applied to the value it returned
NormalizeColorAgain ==
  /\ ret.fn = "normalize_color"
  /\ ret.calls = 1
  /\ ApplyingAgain(ret.value, [fn |-> "normalize_color", calls |-> 2,
                               value |-> normalize_color(PyStr(ret.value))])

NextNorm ==
  \/ NormalizeCategory
  \/ NormalizeCategoryAgain
  \/ NormalizeColor
  \/ NormalizeColorAgain

SpecNorm == InitNorm /\ [][NextNorm]_vars

(***************************************************************************)
(* EnhancedCache used on its own: get, set and clear in any order          *)
(***************************************************************************)

\* the latest time.time() of a run of cache calls
MaxTime == 2

CacheKeys == {"k1", "k2", "k3"}

CacheValues == {"v1", "v2"}

\* the ttl_seconds and max_size a cache is constructed with
CacheTtls == {1}

CacheSizes == {1, 2}

InitCache ==
  \E ttl \in CacheTtls, size \in CacheSizes :
     /\ db = <<>>
     /\ now = 0
     /\ cache = NewCache(ttl, size)
     /\ NoCall
     /\ NothingAside

\* a cache call made at time t has returned r; a is the call, after the cache
\* it leaves, seen the access times it leaves
Called(a, r, after, seen, t) ==
  /\ now' = t
  /\ arg' = a
  /\ ret' = r
  /\ cache' = after
  /\ accessed' = seen
  /\ UNCHANGED <<db, step, sel, threads>>
  /\ UNCHANGED callVars

\* the access times after a get of key that returned value at time t: a
\* successful get is an access
SeenAfterGet(seen, key, value, t) ==
  IF IsNone(value) THEN seen ELSE DictSet(seen, key, t)

\* self._cache.get(key) at time t
CacheGet(key, t) ==
  Called([fn |-> "get", key |-> key, at |-> t],
         [fn |-> "get", value |-> CacheGetValue(cache, key, t)],
         CacheAfterGet(cache, key, t),
         SeenAfterGet(accessed, key, CacheGetValue(cache, key, t), t),
         t)

\* self._cache.set(key, value, ...) at time t; the call records the key it evicts
CacheSet(key, value, t) ==
  Called([fn |-> "set", key |-> key, value |-> value, at |-> t],
         [fn |-> "set", evicted |-> CacheEvicted(cache)],
         CacheAfterSet(cache, key, value, t),
         DictSet(accessed, key, t),
         t)

\* self._cache.clear()
CacheClear ==
  /\ cache.data # <<>>
  /\ Called([fn |-> "clear"], [fn |-> "clear"], CacheAfterClear(cache), accessed, now)

GetCall == \E key \in CacheKeys, t \in now..MaxTime : CacheGet(key, t)

SetCall == \E key \in CacheKeys, value \in CacheValues, t \in now..MaxTime : CacheSet(key, value, t)

NextCache ==
  \/ GetCall
  \/ SetCall
  \/ CacheClear

SpecCache == InitCache /\ [][NextCache]_vars

(***************************************************************************)
(* Properties of generate_outfits                                          *)
(***************************************************************************)

\* min_items of the outfit type of the running call
MinItems == context.config.min_items

\* the item ids of an outfit of the response, duplicates removed
DistinctIds(outfit) == {ItemId(outfit.items[k]) : k \in 1..Len(outfit.items)}

\* C1: every outfit accepted by the loop and every outfit of the returned list
\* has at least min_items distinct items for the outfit type of the occasion
\* (2 for casual/sport/travel, 3 for the other types).
C1_MinItems ==
  /\ \A k \in 1..Len(outfits) : Cardinality(DistinctIds(outfits[k])) >= MinItems
  /\ \A k \in 1..Len(result) : Cardinality(DistinctIds(result[k])) >= MinItems
  /\ context.outfit_type \in {"casual", "sport", "travel"} => MinItems = 2
  /\ context.outfit_type \notin {"casual", "sport", "travel"} => MinItems = 3

\* C1 witness: a call with a focus item has returned an outfit, and the outfit
\* has exactly min_items items
C1_Witness ==
  /\ pc = "done"
  /\ ~IsNone(context.focus_item)
  /\ Len(result) = 1
  /\ Cardinality(DistinctIds(result[1])) = MinItems

\* C2: in every state of the loop and in the response, no two accepted outfits
\* have the same sorted tuple of item ids, and every accepted outfit's tuple is
\* recorded in used_outfit_combinations.
C2_UniqueCombinations ==
  /\ \A i, j \in 1..Len(outfits) : i # j => ItemIds(outfits[i].items) # ItemIds(outfits[j].items)
  /\ \A i, j \in 1..Len(result) : i # j => ItemIds(result[i].items) # ItemIds(result[j].items)
  /\ \A i \in 1..Len(outfits) : ItemIds(outfits[i].items) \in used_outfit_combinations

\* C2 witness: the loop has accepted an outfit and then discarded a later
\* attempt as a duplicate of it
C2_Witness ==
  /\ pc = "loop"
  /\ Len(outfits) = 1
  /\ attempt >= 2
  /\ AttemptOutcome(user_items, context, used_outfit_combinations).kind = "duplicate"

\* C3: the loop never runs more than max_generation_attempts (100) attempts,
\* never runs an attempt once num_outfits outfits are accepted, and every call
\* that enters the loop reaches its return.
C3_Terminates ==
  /\ [](attempt <= max_generation_attempts)
  /\ [][attempt' # attempt /\ pc = "loop" => Len(outfits) < req.num_outfits]_vars
  /\ [](pc = "loop" => <>(pc = "done"))

\* C3 witness: a call has returned after 100 attempts that were all discarded
C3_Witness ==
  /\ pc = "done"
  /\ attempt = max_generation_attempts
  /\ outfits = <<>>
  /\ result = <<>>

\* C4 (as claimed): a casual request for 5 outfits from a wardrobe of two tops,
\* one bottom and one pair of shoes, where each top with the bottom and the
\* shoes scores at least 0.5, returns exactly 2 outfits.
C4_TwoOutfits ==
  LET tops == categorize_items(user_items, "top")
      bottoms == categorize_items(user_items, "bottom")
      shoes == categorize_items(user_items, "shoes")
      valid(top) == LET sc == calculate_outfit_score(<<top, bottoms[1], shoes[1]>>, context)
                    IN  sc[1] >= 5000 * sc[2]
  IN  (/\ pc = "done"
       /\ req.num_outfits = 5
       /\ IsNone(req.focus_item_id)
       /\ determine_outfit_type(req.occasion) = "casual"
       /\ Len(user_items) = 4 /\ Len(tops) = 2 /\ Len(bottoms) = 1 /\ Len(shoes) = 1
       /\ valid(tops[1]) /\ valid(tops[2]))
      => Len(result) = 2

\* C5: a call on an empty wardrobe returns the empty list, and no step of a
\* run on an empty wardrobe enters the loop or runs an attempt.
C5_EmptyWardrobe ==
  /\ [](pc = "done" /\ db = <<>> => result = <<>> /\ attempt = 0 /\ outfits = <<>>)
  /\ [][db = <<>> => attempt' = attempt /\ pc' # "loop"]_vars

\* C5 witness: a request for 5 outfits on an empty wardrobe has returned
C5_Witness ==
  /\ pc = "done"
  /\ db = <<>>
  /\ req.num_outfits = 5
  /\ result = <<>>

\* C6: for a wardrobe of exactly one top and one bottom, both black, the
\* occasion "casual day" and the weather 22 degrees / clear, the call returns
\* exactly one outfit, made of the two items, with a score above 0.5.
C6_ScenarioB ==
  (/\ pc = "done"
   /\ Len(db) = 2
   /\ Len(categorize_items(get_user_items(db), "top")) = 1
   /\ Len(categorize_items(get_user_items(db), "bottom")) = 1
   /\ \A k \in 1..Len(db) : db[k].color = "black"
   /\ req.occasion = "casual day"
   /\ req.weather = [temp_c |-> [num |-> 22], condition |-> "clear"])
  => /\ Len(result) = 1
     /\ DistinctIds(result[1]) = {db[k].id : k \in 1..Len(db)}
     /\ result[1].item_count = 2
     /\ result[1].score > 500

\* C6 witness: scenario B has been served
C6_Witness ==
  /\ pc = "done"
  /\ Len(db) = 2
  /\ \A k \in 1..Len(db) : db[k].color = "black"
  /\ req.occasion = "casual day"
  /\ req.weather = [temp_c |-> [num |-> 22], condition |-> "clear"]
  /\ IsNone(req.focus_item_id)
  /\ Len(result) = 1

\* C7 (as claimed): for a wardrobe of one top and one bottom of non-neutral
\* colours, one of a warm and one of a cool family, the bottom fails the
\* compatibility gate against the top and no returned outfit holds both.
C7_ClashRejected ==
  LET tops == categorize_items(user_items, "top")
      bottoms == categorize_items(user_items, "bottom")
  IN  (/\ pc = "done"
       /\ Len(user_items) = 2 /\ Len(tops) = 1 /\ Len(bottoms) = 1
       /\ {get_color_family(tops[1].color), get_color_family(bottoms[1].color)}
            = {"warm", "cool"})
      => /\ ~check_item_compatibility(bottoms[1], <<tops[1]>>)
         /\ \A k \in 1..Len(result) :
              ~({ItemId(tops[1]), ItemId(bottoms[1])} \subseteq DistinctIds(result[k]))

\* the wardrobe of scenario D: one top, one bottom, one pair of shoes and one
\* outerwear item, at 5 degrees / clear
ScenarioD ==
  /\ pc = "done"
  /\ req.weather = [temp_c |-> [num |-> 5], condition |-> "clear"]
  /\ Len(user_items) = 4
  /\ \A c \in {"top", "bottom", "shoes", "outerwear"} : Len(categorize_items(user_items, c)) = 1

C9_ScoreRange ==
  ret.fn = "calculate_outfit_score" =>
    /\ Len(arg.outfit_items) < arg.context.config.min_items => ret.value = <<0, 1>>
    /\ Len(arg.outfit_items) >= arg.context.config.min_items
         => ret.value[1] >= 0 /\ ret.value[2] > 0

\* C9 witness: two items were scored for an outfit type whose min_items is 3
C9_Witness ==
  /\ ret.fn = "calculate_outfit_score"
  /\ Len(arg.outfit_items) = 2
  /\ arg.context.config.min_items = 3
  /\ ret.value = <<0, 1>>

\* C10 (as claimed): normalize_category and normalize_color return a string
\* for every string and for None, and applied to the value they returned
\* they return that value again.
C10_Idempotent ==
  /\ [](ret.fn \in {"normalize_category", "normalize_color"} => ret.value \in STRING)
  /\ [][ret.fn \in {"normalize_category", "normalize_color"} /\ ret.calls = 1
          => ret'.value = ret.value]_vars

(***************************************************************************)
(* Properties of EnhancedCache                                             *)
(***************************************************************************)

\* C11: a get(k) that directly follows set(k, v) returns v and keeps k when at
\* most ttl_seconds have passed since the set, and returns None and removes k
\* from both maps when more than ttl_seconds have passed.
C11_SetThenGet ==
  [][(arg.fn = "set" /\ arg'.fn = "get" /\ arg'.key = arg.key) =>
       IF arg'.at <= arg.at + cache.ttl_seconds
       THEN /\ ret'.value = [value |-> arg.value]
            /\ arg.key \in DictKeys(cache'.data)
       ELSE /\ IsNone(ret'.value)
            /\ arg.key \notin DictKeys(cache'.data)
            /\ arg.key \notin DictKeys(cache'.access_times)]_vars

\* C11 witness: a key that was set has been read more than ttl_seconds after
\* its last access; the get returned None and the key is gone
C11_Witness ==
  /\ arg.fn = "get"
  /\ IsNone(ret.value)
  /\ arg.key \in DictKeys(accessed)
  /\ arg.at > DictGet(accessed, arg.key) + cache.ttl_seconds
  /\ arg.key \notin DictKeys(cache.data)

\* C12: the cache never holds more than max_size entries, and a set called at
\* capacity removes exactly one entry, an entry whose latest set or successful
\* get is the oldest among the stored entries, before it stores its key.
C12_BoundedLru ==
  /\ [](Len(cache.data) <= cache.max_size)
  /\ [][(arg'.fn = "set" /\ Len(cache.data) >= cache.max_size) =>
          /\ ~IsNone(ret'.evicted)
          /\ ret'.evicted.str \in DictKeys(cache.data)
          /\ \A k \in DictKeys(cache.data) :
                DictGet(accessed, ret'.evicted.str) <= DictGet(accessed, k)
          /\ DictKeys(cache'.data)
               = (DictKeys(cache.data) \ {ret'.evicted.str}) \cup {arg'.key}]_vars

\* C12 witness: a set at capacity 2 has evicted the entry stored last, the
\* entry stored first having been read since
C12_Witness ==
  /\ arg.fn = "set"
  /\ cache.max_size = 2
  /\ Len(cache.data) = 2
  /\ ~IsNone(ret.evicted)
  /\ ret.evicted.str # arg.key
  /\ cache.data[1][1] # arg.key
  /\ DictGet(accessed, ret.evicted.str) < DictGet(accessed, cache.data[1][1])
  /\ DictGet(accessed, cache.data[1][1]) < arg.at

(***************************************************************************)
(* Threads calling get and set on the one EnhancedCache of the process.    *)
(* The server runs with threaded=True and every request handler uses the   *)
(* same generator, so the calls of two requests interleave between their   *)
(* reads and writes of _data and _access_times; the class holds no lock.   *)
(* A thread is at the statement it executes next.                          *)
(***************************************************************************)

ThreadIds == {1, 2}

ThreadKeys == {"k1", "k2"}

\* a thread outside a cache call
IdleThread == [pc |-> "idle", fn |-> "none", key |-> "", at |-> 0, oldest_key |-> ""]

InitThreads ==
  \E ttl \in CacheTtls, size \in CacheSizes :
     /\ db = <<>>
     /\ now = 0
     /\ cache = NewCache(ttl, size)
     /\ NoCall
     /\ arg = NoArg
     /\ ret = NoArg
     /\ step = NoStep
     /\ sel = NoSelection
     /\ threads = <<IdleThread, IdleThread>>
     /\ accessed = <<>>

\* thread i moves on; t is its record after the statement, after the cache
\* the statement leaves
ThreadStep(i, t, after) ==
  /\ threads' = [threads EXCEPT ![i] = t]
  /\ cache' = after
  /\ UNCHANGED <<db, now, arg, ret, step, sel, accessed>>
  /\ UNCHANGED callVars

\* thread i at pc p
At(i, p) == threads[i].pc = p

\* thread i with its pc set to p
Goto(i, p) == [threads[i] EXCEPT !.pc = p]

\* the clock, read by time.time()
Tick ==
  /\ now < MaxTime
  /\ now' = now + 1
  /\ UNCHANGED <<db, cache, arg, ret, step, sel, threads, accessed>>
  /\ UNCHANGED callVars

\* a thread enters get(key) or set(key, ...): now = time.time()
ThreadCall(i, fn, key) ==
  /\ threads[i].pc \in {"idle", "returned", "raised"}
  /\ ThreadStep(i, [pc |-> IF fn = "get" THEN "get_ent" ELSE "set_len",
                    fn |-> fn, key |-> key, at |-> now, oldest_key |-> ""], cache)

\* get: ent = self._data.get(key), and the two tests on it
GetEnt(i) ==
  /\ At(i, "get_ent")
  /\ ThreadStep(i, Goto(i, IF threads[i].key \notin DictKeys(cache.data) THEN "returned"
                           ELSE IF DictGet(cache.data, threads[i].key).expires_at < threads[i].at
                                THEN "get_pop_data"
                                ELSE "get_touch"), cache)

\* get: self._data.pop(key, None)
GetPopData(i) ==
  /\ At(i, "get_pop_data")
  /\ ThreadStep(i, Goto(i, "get_pop_access"), [cache EXCEPT !.data = DictPop(@, threads[i].key)])

\* get: self._access_times.pop(key, None); return None
GetPopAccess(i) ==
  /\ At(i, "get_pop_access")
  /\ ThreadStep(i, Goto(i, "returned"),
                [cache EXCEPT !.access_times = DictPop(@, threads[i].key)])

\* get: self._access_times[key] = now; return ent.value
GetTouch(i) ==
  /\ At(i, "get_touch")
  /\ ThreadStep(i, Goto(i, "returned"),
                [cache EXCEPT !.access_times = DictSet(@, threads[i].key, threads[i].at)])

\* set: if len(self._data) >= self.max_size
SetLen(i) ==
  /\ At(i, "set_len")
  /\ ThreadStep(i, Goto(i, IF Len(cache.data) >= cache.max_size THEN "set_min" ELSE "set_data"),
                cache)

\* set: oldest_key = min(self._access_times.items(), ...)[0]; min() of an
\* empty sequence raises ValueError, which ends the call
SetMin(i) ==
  /\ At(i, "set_min")
  /\ ThreadStep(i, IF cache.access_times = <<>>
                   THEN Goto(i, "raised")
                   ELSE [threads[i] EXCEPT !.pc = "set_pop_data",
                                           !.oldest_key = OldestKey(cache.access_times)],
                cache)

\* set: self._data.pop(oldest_key, None)
SetPopData(i) ==
  /\ At(i, "set_pop_data")
  /\ ThreadStep(i, Goto(i, "set_pop_access"),
                [cache EXCEPT !.data = DictPop(@, threads[i].oldest_key)])

\* set: self._access_times.pop(oldest_key, None)
SetPopAccess(i) ==
  /\ At(i, "set_pop_access")
  /\ ThreadStep(i, Goto(i, "set_data"),
                [cache EXCEPT !.access_times = DictPop(@, threads[i].oldest_key)])

\* set: self._data[key] = CacheEntry(...)
SetData(i) ==
  /\ At(i, "set_data")
  /\ ThreadStep(i, Goto(i, "set_access"),
                [cache EXCEPT !.data = DictSet(@, threads[i].key,
                                               [value |-> "v1",
                                                expires_at |-> threads[i].at + cache.ttl_seconds])])

\* set: self._access_times[key] = now
SetAccess(i) ==
  /\ At(i, "set_access")
  /\ ThreadStep(i, Goto(i, "returned"),
                [cache EXCEPT !.access_times = DictSet(@, threads[i].key, threads[i].at)])

NextThreads ==
  \/ Tick
  \/ \E i \in ThreadIds, fn \in {"get", "set"}, key \in ThreadKeys : ThreadCall(i, fn, key)
  \/ \E i \in ThreadIds : GetEnt(i)
  \/ \E i \in ThreadIds : GetPopData(i)
  \/ \E i \in ThreadIds : GetPopAccess(i)
  \/ \E i \in ThreadIds : GetTouch(i)
  \/ \E i \in ThreadIds : SetLen(i)
  \/ \E i \in ThreadIds : SetMin(i)
  \/ \E i \in ThreadIds : SetPopData(i)
  \/ \E i \in ThreadIds : SetPopAccess(i)
  \/ \E i \in ThreadIds : SetData(i)
  \/ \E i \in ThreadIds : SetAccess(i)

SpecThreads == InitThreads /\ [][NextThreads]_vars

\* no thread is inside a cache call
AllFinished == \A i \in ThreadIds : threads[i].pc \in {"idle", "returned", "raised"}

\* C13: when threads call get and set concurrently every call takes effect
\* atomically: once all calls have finished _data and _access_times hold the
\* same keys, and no set raises in its eviction scan
C13_AtomicCalls ==
  /\ AllFinished => DictKeys(cache.data) = DictKeys(cache.access_times)
  /\ \A i \in ThreadIds : threads[i].pc # "raised"

(***************************************************************************)
(* One generation attempt, category by category: the required-category     *)
(* loop of _select_base_items and the loop of _add_complementary_items,    *)
(* one pass of a loop per step.  sel holds the item list built so far and  *)
(* context.blacklisted_item_ids; step holds the loop the attempt is in and  *)
(* the categories it has still to visit.                                   *)
(***************************************************************************)

InitAttempt ==
  /\ db \in Wardrobes
  /\ now = 0
  /\ cache = NewCache(DefaultTtl, DefaultMaxSize)
  /\ NoCall
  /\ NothingAside

\* the attempt moves on to the step t with the selection s
AttemptStep(t, s) ==
  /\ step' = t
  /\ sel' = s
  /\ UNCHANGED <<db, now, cache, pc, req, cached, attempt, outfits,
                 used_outfit_combinations, result, arg, ret, threads, accessed>>

\* an attempt of a call on a non-empty wardrobe starts: the context is built
\* with an empty blacklist, the focus item goes first into base_items, and the
\* required categories are determined
BeginAttempt(occasion, weather, focus_item_id) ==
  /\ step.phase = "none"
  /\ db # <<>>
  /\ user_items' = get_user_items(db)
  /\ context' = Context(SanitizeOccasion(occasion), weather, user_items', focus_item_id)
  /\ AttemptStep([phase |-> "required", categories |-> get_required_categories(context')],
                 FirstSelection(context'))

\* one pass of the required-category loop
SelectStep ==
  /\ step.phase = "required"
  /\ step.categories # <<>>
  /\ AttemptStep([step EXCEPT !.categories = Tail(@)],
                 SelectRequired(Head(step.categories), sel, user_items, context))
  /\ UNCHANGED <<user_items, context>>

\* _select_base_items returns: with fewer than min_items base items the
\* attempt is discarded, otherwise the complementary categories are determined
EndSelect ==
  /\ step.phase = "required"
  /\ step.categories = <<>>
  /\ AttemptStep(IF Len(sel.items) < context.config.min_items
                 THEN [phase |-> "discarded", categories |-> <<>>]
                 ELSE [phase |-> "complementary",
                       categories |-> get_complementary_categories(context)],
                 sel)
  /\ UNCHANGED <<user_items, context>>

\* one pass of the loop of _add_complementary_items
AddStep ==
  /\ step.phase = "complementary"
  /\ step.categories # <<>>
  /\ AttemptStep([step EXCEPT !.categories = Tail(@)],
                 AddComplementary(Head(step.categories), sel, user_items, context))
  /\ UNCHANGED <<user_items, context>>

\* _add_complementary_items returns outfit_items
EndAdd ==
  /\ step.phase = "complementary"
  /\ step.categories = <<>>
  /\ AttemptStep([phase |-> "selected", categories |-> <<>>], sel)
  /\ UNCHANGED <<user_items, context>>

NextAttempt ==
  \/ \E o \in Occasions, w \in Weathers, f \in FocusIds : BeginAttempt(o, w, f)
  \/ SelectStep
  \/ EndSelect
  \/ AddStep
  \/ EndAdd

SpecAttempt == InitAttempt /\ [][NextAttempt]_vars

\* the attempt run step by step selects what the functions select
StepsAgree ==
  /\ step.phase = "discarded" =>
       /\ sel = select_base_items(user_items, context)
       /\ Len(sel.items) < context.config.min_items
  /\ step.phase = "selected" =>
       sel = add_complementary_items(select_base_items(user_items, context),
                                     user_items, context)

\* C14: within one attempt the blacklist never loses an element, and a pass
\* of the required-category loop or of the complementary loop that accepts an
\* item appends that one item, which was not blacklisted before the pass and
\* is blacklisted after it
C14_BlacklistGrows ==
  [][step.phase \in {"required", "complementary"} =>
       /\ sel.blacklist \subseteq sel'.blacklist
       /\ sel'.items # sel.items =>
            /\ Len(sel'.items) = Len(sel.items) + 1
            /\ SubSeq(sel'.items, 1, Len(sel.items)) = sel.items
            /\ ItemId(sel'.items[Len(sel'.items)]) \notin sel.blacklist
            /\ sel'.blacklist = sel.blacklist \cup {ItemId(sel'.items[Len(sel'.items)])}
       /\ sel'.items = sel.items => sel'.blacklist = sel.blacklist]_vars

\* an attempt without a focus item ended with three required items and an
\* outerwear item added by the complementary loop, all four blacklisted
C14_Witness ==
  /\ step.phase = "selected"
  /\ IsNone(context.focus_item)
  /\ context.outfit_type = "casual"
  /\ Len(sel.items) = 4
  /\ NormCategory(sel.items[4].category) = "outerwear"
  /\ sel.blacklist = {ItemId(sel.items[k]) : k \in 1..4}

\* C15: with a focus item found in the wardrobe, the item list an attempt
\* builds starts with the focus item and holds it exactly once: neither loop
\* selects it a second time
C15_FocusOnce ==
  (step.phase \in {"required", "complementary", "selected"} /\ ~IsNone(context.focus_item)) =>
     /\ sel.items # <<>>
     /\ sel.items[1] = context.focus_item.item
     /\ Cardinality({k \in 1..Len(sel.items) :
                       ItemId(sel.items[k]) = ItemId(context.focus_item.item)}) = 1

(***************************************************************************)
(* The generation loop with the selection left open: an attempt may build  *)
(* any top with any bottom of the wardrobe, in any order, instead of the   *)
(* one combination the selection computes.  The rest of the iteration, the *)
(* loop tests and the end of the call are those of generate_outfits, so    *)
(* what holds here for every order of acceptance holds for the call.       *)
(***************************************************************************)

\* the largest num_outfits of a call of this specification
MaxSorted == 3

InitSort ==
  /\ db = SelectSeq(Catalogue, LAMBDA d : NormCategory(d.category) \in {"top", "bottom"})
  /\ now = 0
  /\ cache = NewCache(DefaultTtl, DefaultMaxSize)
  /\ NoCall
  /\ NothingAside

\* a call on a cache miss, for any num_outfits from 0 on
SortCall ==
  \E w \in Weathers, n \in 0..MaxSorted :
     EnterLoop(Request(PyStr("casual day"), w, n, PyNone), get_user_items(db))

\* the item lists an open attempt may build
OpenLists(items) ==
  {<<t, b>> : t \in {items[k] : k \in {j \in 1..Len(items) :
                                        NormCategory(items[j].category) = "top"}},
              b \in {items[k] : k \in {j \in 1..Len(items) :
                                        NormCategory(items[j].category) = "bottom"}}}

\* one iteration of the loop, with any item list in place of the selected one
OpenAttempt ==
  /\ pc = "loop"
  /\ attempt < context.config.max_generation_attempts
  /\ Len(outfits) < req.num_outfits
  /\ \E l \in OpenLists(user_items) :
        Record(OutcomeOfItems(l, context, used_outfit_combinations))

NextSort ==
  \/ SortCall
  \/ OpenAttempt
  \/ Finish

SpecSort == InitSort /\ [][NextSort]_vars

\* C16: the list returned on a cache miss is ordered by non-increasing score
\* and has at most num_outfits elements, for num_outfits >= 0
C16_SortedTruncated ==
  (pc = "done" /\ IsNone(cached)) =>
     /\ Len(result) <= req.num_outfits
     /\ \A k \in 1..(Len(result) - 1) : result[k].score >= result[k + 1].score

\* a call returned three outfits, best first, that were accepted in another
\* order
C16_Witness ==
  /\ pc = "done"
  /\ IsNone(cached)
  /\ Len(result) = 3
  /\ result[1].score > result[2].score
  /\ result[2].score > result[3].score
  /\ outfits[1].score < outfits[2].score

(***************************************************************************)
(* Properties of the attempts of generate_outfits                          *)
(***************************************************************************)

\* some required category of the outfit type has no item in the wardrobe
MissingRequired ==
  \E k \in 1..Len(get_required_categories(context)) :
     categorize_items(user_items, get_required_categories(context)[k]) = <<>>

\* len(base_items) of an attempt of the running call
BaseItemCount == Len(select_base_items(user_items, context).items)

\* C17 as stated: when a required category of the outfit type has no
\* selectable item, every attempt is discarded and the call returns no outfit
C17_MissingRequiredDiscarded ==
  (pc \in {"loop", "done"} /\ user_items # <<>> /\ MissingRequired) =>
     /\ outfits = <<>>
     /\ result = <<>>

\* C17: an attempt whose required-category selection yields fewer than
\* min_items base items is discarded: it adds no outfit and records no
\* combination, the loop goes on with the next attempt, and the call ends
\* with [] once the attempt budget is used up
C17_FewBaseItemsDiscarded ==
  /\ []((pc \in {"loop", "done"} /\ user_items # <<>>
           /\ BaseItemCount < context.config.min_items) =>
          /\ outfits = <<>>
          /\ used_outfit_combinations = {}
          /\ pc = "done" => (result = <<>> /\ attempt = max_generation_attempts))
  /\ [][(pc = "loop" /\ attempt' # attempt /\ BaseItemCount < context.config.min_items) =>
          /\ attempt' = attempt + 1
          /\ pc' = "loop"]_vars

\* a call whose wardrobe has a top and no bottom ran all its attempts, each
\* with one base item, and returned []
C17_Witness ==
  /\ pc = "done"
  /\ user_items # <<>>
  /\ MissingRequired
  /\ BaseItemCount = 1
  /\ context.config.min_items = 2
  /\ attempt = max_generation_attempts
  /\ result = <<>>

\* the responses of a generation whose first attempt has the outcome out,
\* when every image lookup and every enrichment call succeeds
ResultsOf(out, ctx, num_outfits) ==
  IF out.kind = "accepted" /\ num_outfits >= 1
  THEN {Refined(<<format_outfit_for_response(out.outfit_items, ctx, rounded, {})>>,
                <<TRUE>>) : rounded \in Round3(out.outfit_score)}
  ELSE {<<>>}

\* the response of the running call when every image lookup and every
\* enrichment call succeeds: the outfit of the first attempt, if it is
\* accepted, with its images and its enrichment fields
SuccessResults == ResultsOf(AttemptOutcome(user_items, context, {}), context, req.num_outfits)

\* the item got is the item expected, but for a display image left empty
SameItemButImage(got, expected) ==
  /\ [got EXCEPT !.image_base64 = PyNone] = [expected EXCEPT !.image_base64 = PyNone]
  /\ got.image_base64 \in {expected.image_base64, PyNone}

\* the outfit got is the outfit expected, with the same items in the same
\* order and the same score, but for display images left empty and
\* enrichment fields absent
SameOutfitButDisplay(got, expected) ==
  /\ [got EXCEPT !.items = <<>>, !.refined = TRUE] = [expected EXCEPT !.items = <<>>]
  /\ Len(got.items) = Len(expected.items)
  /\ \A k \in 1..Len(expected.items) : SameItemButImage(got.items[k], expected.items[k])

\* C18: whichever image lookups raise and whichever enrichment calls fail,
\* generate_outfits returns, and returns the outfits it returns when they all
\* succeed, with the same items, order and scores; only the display image of
\* a failing item is empty and the enrichment fields of a failing outfit absent
C18_FailuresContained ==
  (pc = "done" /\ IsNone(cached) /\ user_items # <<>>) =>
     \E success \in SuccessResults :
        /\ Len(result) = Len(success)
        /\ \A k \in 1..Len(success) : SameOutfitButDisplay(result[k], success[k])

\* a call returned an outfit without enrichment fields in which one image
\* lookup raised and another succeeded
C18_Witness ==
  /\ pc = "done"
  /\ Len(result) = 1
  /\ ~result[1].refined
  /\ \E j, k \in 1..Len(result[1].items) :
        /\ ~IsNone(result[1].items[j].image_file_id)
        /\ IsNone(result[1].items[j].image_base64)
        /\ ~IsNone(result[1].items[k].image_base64)

\* C19: one call returns at most one outfit: every attempt starts from an
\* empty blacklist and the same wardrobe and selects the same combination, so
\* once an outfit is accepted every later attempt is a duplicate and adds
\* nothing
C19_AtMostOneOutfit ==
  /\ [](Len(outfits) <= 1 /\ Len(result) <= 1)
  /\ []((pc = "loop" /\ outfits # <<>>) =>
          /\ used_outfit_combinations
               = {AttemptOutcome(user_items, context, {}).item_ids}
          /\ AttemptOutcome(user_items, context, used_outfit_combinations).kind = "duplicate")
  /\ [][(pc = "loop" /\ outfits # <<>> /\ attempt' # attempt) =>
          /\ outfits' = outfits
          /\ used_outfit_combinations' = used_outfit_combinations]_vars

\* a call for five outfits on a wardrobe with two tops and two bottoms ran
\* all its attempts and returned one outfit
C19_Witness ==
  /\ pc = "done"
  /\ req.num_outfits = 5
  /\ Len(categorize_items(user_items, "top")) = 2
  /\ Len(categorize_items(user_items, "bottom")) = 2
  /\ attempt = max_generation_attempts
  /\ Len(result) = 1

(***************************************************************************)
(* Successive calls of generate_outfits on one generator: a call is        *)
(* answered from the cache when the entry of its key has not expired, and  *)
(* runs the generation otherwise.  The calls are those of one user on one  *)
(* wardrobe for one occasion; they differ in their weather records.        *)
(***************************************************************************)

\* the weather records of the calls: two conditions at one temperature, and
\* two temperatures in the bucket "mild"
CallWeathers ==
  {[temp_c |-> [num |-> 22], condition |-> "clear"],
   [temp_c |-> [num |-> 22], condition |-> "Rain"],
   [temp_c |-> [num |-> 13], condition |-> "clear"],
   [temp_c |-> [num |-> 20], condition |-> "clear"]}

InitCalls ==
  /\ db = SelectSeq(Catalogue, LAMBDA d : d.id \in {"t1", "b1", "s1", "o1"})
  /\ now = 0
  /\ cache = NewCache(DefaultTtl, DefaultMaxSize)
  /\ NoCall
  /\ NothingAside

\* a call that finds its key in the cache
CachedCall ==
  \E w \in CallWeathers : CallCached(PyStr("casual day"), w, 1, PyNone)

\* a call that misses the cache
FreshCall ==
  \E w \in CallWeathers : CallGenerate(PyStr("casual day"), w, 1, PyNone)

\* the call has returned to its caller; the generator is ready for the next
ReturnToCaller ==
  /\ pc = "done"
  /\ pc' = "idle"
  /\ UNCHANGED <<db, now, cache, req, cached, user_items, context, attempt, outfits,
                 used_outfit_combinations, result>>
  /\ UNCHANGED aside

NextCalls ==
  \/ Tick
  \/ CachedCall
  \/ FreshCall
  \/ Attempt
  \/ Finish
  \/ ReturnToCaller

SpecCalls == InitCalls /\ [][NextCalls]_vars

\* the responses of a fresh generation with the arguments of the running call
FreshResults ==
  ResultsOf(AttemptOutcome(get_user_items(db),
                           Context(req.occasion, req.weather, get_user_items(db),
                                   req.focus_item_id),
                           {}),
            Context(req.occasion, req.weather, get_user_items(db), req.focus_item_id),
            req.num_outfits)

\* C20: a call answered from the cache returns the list a fresh generation
\* with its own arguments returns (display images and enrichment apart), also
\* when the call that filled the entry had another condition or another
\* temperature of the same bucket
C20_CacheHitIsFresh ==
  (pc = "done" /\ ~IsNone(cached)) =>
     \E fresh \in FreshResults :
        /\ Len(result) = Len(fresh)
        /\ \A k \in 1..Len(fresh) : SameOutfitButDisplay(result[k], fresh[k])

(***************************************************************************)
(* Functions of the generator applied on their own: the argument of the    *)
(* call is drawn in the initial state, and the one step of a behaviour is  *)
(* the call returning.                                                     *)
(***************************************************************************)

\* the values of normalize_category that reach _get_category_synergy
SynergyCategories ==
  {"top", "bottom", "shoes", "dress", "accessory", "outerwear", "unknown"}

SynergyCalls ==
  {[fn |-> "get_category_synergy", cat1 |-> a, cat2 |-> b] :
     a \in SynergyCategories, b \in SynergyCategories}

\* self._get_category_synergy(cat1, cat2)
GetCategorySynergy ==
  /\ arg.fn = "get_category_synergy"
  /\ ret = NoArg
  /\ Returning([fn |-> "get_category_synergy",
                value |-> get_category_synergy(arg.cat1, arg.cat2)])

\* the colours of the family, complementary and analogous tables, and "unknown"
HarmonyColors ==
  NeutralColors \cup WarmColors \cup CoolColors \cup EarthColors \cup JewelColors
  \cup DOMAIN ComplementaryPairs \cup {ComplementaryPairs[c] : c \in DOMAIN ComplementaryPairs}
  \cup DOMAIN AnalogousRanges \cup UNION {AnalogousRanges[c] : c \in DOMAIN AnalogousRanges}
  \cup {"unknown"}

HarmonyCalls ==
  {[fn |-> "calculate_harmony_score", color1 |-> a, color2 |-> b] :
     a \in HarmonyColors, b \in HarmonyColors}

\* ColorHarmony.calculate_harmony_score(color1, color2)
CalculateHarmonyScore ==
  /\ arg.fn = "calculate_harmony_score"
  /\ ret = NoArg
  /\ Returning([fn |-> "calculate_harmony_score",
                value |-> calculate_harmony_score(arg.color1, arg.color2)])

\* the items of the gate calls, by the two fields the gate reads: a colour of
\* each family, "unknown" and a colour outside the tables, with no tag or a
\* tag of one style category
GateItems ==
  {[color |-> c, style_tags |-> t] :
     c \in {"black", "red", "teal", "unknown", "plaid"},
     t \in {<<>>, <<"athletic">>, <<"professional">>, <<"glamorous">>, <<"boho">>}}

\* the longest list of already chosen items of a gate call
MaxChosen == 2

RECURSIVE GateLists(_)
\* the lists of at most n gate items
GateLists(n) ==
  IF n = 0 THEN {<<>>}
  ELSE GateLists(n - 1) \cup {Append(l, it) : l \in GateLists(n - 1), it \in GateItems}

\* a gate call: a candidate and a list of chosen items
ApplyingGate ==
  \E it \in GateItems, l \in GateLists(MaxChosen) :
    Applying([fn |-> "check_item_compatibility", new_item |-> it, existing_items |-> l])

\* self._check_item_compatibility(new_item, existing_items, context)
CheckItemCompatibility ==
  /\ arg.fn = "check_item_compatibility"
  /\ ret = NoArg
  /\ Returning([fn |-> "check_item_compatibility",
                value |-> check_item_compatibility(arg.new_item, arg.existing_items)])

\* the items of the weather calls, by the two fields the weather code reads
WeatherItems ==
  {[category |-> c, style_tags |-> t] :
     c \in {"top", "outerwear", "Boots"}, t \in {<<>>, <<"waterproof">>}}

\* the weather profiles of the weather calls: temperatures on both sides of 12
\* and of 15 degrees, with and without rain
WeatherProfiles ==
  {build_weather_profile([temp_c |-> [num |-> t], condition |-> c]) :
     t \in {5, 12, 13, 14, 15, 22}, c \in {"clear", "Light Rain"}}

\* the contexts of the weather calls, for an outfit type of each augmentation case
WeatherContexts ==
  {[weather_profile |-> wp, outfit_type |-> ot] :
     wp \in WeatherProfiles, ot \in {"casual", "business", "formal", "party", "date"}}

WeatherBonusCalls ==
  {[fn |-> "calculate_weather_adaptation_bonus", outfit_items |-> l, context |-> c] :
     l \in {<<a>> : a \in WeatherItems} \cup {<<a, b>> : a \in WeatherItems, b \in WeatherItems},
     c \in {x \in WeatherContexts : x.outfit_type = "casual"}}

\* self._calculate_weather_adaptation_bonus(outfit_items, context)
CalculateWeatherAdaptationBonus ==
  /\ arg.fn = "calculate_weather_adaptation_bonus"
  /\ ret = NoArg
  /\ Returning([fn |-> "calculate_weather_adaptation_bonus",
                value |-> calculate_weather_adaptation_bonus(arg.outfit_items, arg.context)])

ComplementaryCalls ==
  {[fn |-> "get_complementary_categories", context |-> c] : c \in WeatherContexts}

\* self._get_complementary_categories(context)
GetComplementaryCategories ==
  /\ arg.fn = "get_complementary_categories"
  /\ ret = NoArg
  /\ Returning([fn |-> "get_complementary_categories",
                value |-> get_complementary_categories(arg.context)])

\* shorts, skirts and a top, by the fields the suitability code reads
SuitabilityItems ==
  {[category |-> c, formality |-> "casual", season |-> s] :
     c \in {"shorts", "skirt", "Mini Skirt", "top"}, s \in {"all-season", "summer"}}

\* contexts whose condition does or does not contain "cold"
SuitabilityContexts ==
  {[weather_profile |-> build_weather_profile([temp_c |-> [num |-> t], condition |-> c]),
    outfit_type |-> ot] :
     t \in {5, 22}, c \in {"cold", "Cold wind", "clear"}, ot \in {"casual", "business"}}

SuitabilityCalls ==
  {[fn |-> "calculate_item_suitability", item |-> it, context |-> c] :
     it \in SuitabilityItems, c \in SuitabilityContexts}

\* self._calculate_item_suitability(item, context)
CalculateItemSuitability ==
  /\ arg.fn = "calculate_item_suitability"
  /\ ret = NoArg
  /\ Returning([fn |-> "calculate_item_suitability",
                value |-> calculate_item_suitability(arg.item, arg.context)])

InitFunctions ==
  \/ \E a \in SynergyCalls \cup HarmonyCalls \cup WeatherBonusCalls \cup ComplementaryCalls
                \cup SuitabilityCalls :
        Applying(a)
  \/ ApplyingGate

NextFunctions ==
  \/ GetCategorySynergy
  \/ CalculateHarmonyScore
  \/ CheckItemCompatibility
  \/ CalculateWeatherAdaptationBonus
  \/ GetComplementaryCategories
  \/ CalculateItemSuitability

SpecFunctions == InitFunctions /\ [][NextFunctions]_vars

\* C21: _get_category_synergy returns, in either argument order, 1.0 for
\* top/bottom and dress/shoes, 0.9 for top/outerwear and bottom/shoes, 0.8
\* for accessory/top and accessory/dress, 0.7 for accessory/bottom, and 0.5
\* for every other pair
C21_SynergyTable ==
  ret.fn = "get_category_synergy" =>
     ret.value =
       (IF {arg.cat1, arg.cat2} \in {{"top", "bottom"}, {"dress", "shoes"}} THEN 10000
        ELSE IF {arg.cat1, arg.cat2} \in {{"top", "outerwear"}, {"bottom", "shoes"}} THEN 9000
        ELSE IF {arg.cat1, arg.cat2} \in {{"accessory", "top"}, {"accessory", "dress"}} THEN 8000
        ELSE IF {arg.cat1, arg.cat2} = {"accessory", "bottom"} THEN 7000
        ELSE 5000)

\* C30: calculate_harmony_score is symmetric on the colours of its tables and
\* "unknown": the score of (c1, c2) is the score of (c2, c1)
C30_HarmonySymmetric ==
  ret.fn = "calculate_harmony_score" =>
     ret.value = calculate_harmony_score(arg.color2, arg.color1)

\* C23: the selection gate returns True for every candidate and every list of
\* chosen items, because neither calculate_harmony_score nor
\* calculate_style_compatibility returns a value below 0.5
C23_GateAlwaysTrue ==
  /\ ret.fn = "calculate_harmony_score" => ret.value >= 5000
  /\ ret.fn = "check_item_compatibility" =>
       /\ ret.value = TRUE
       /\ \A k \in 1..Len(arg.existing_items) :
             /\ calculate_harmony_score(lower(arg.new_item.color),
                                        lower(arg.existing_items[k].color)) >= 5000
             /\ calculate_style_compatibility(arg.new_item.style_tags,
                                              arg.existing_items[k].style_tags) >= 5000

\* the gate returned True for a candidate whose colour harmony with one chosen
\* item and whose style compatibility with another are exactly 0.5
C23_Witness ==
  /\ ret.fn = "check_item_compatibility"
  /\ ret.value = TRUE
  /\ Len(arg.existing_items) = 2
  /\ calculate_harmony_score(lower(arg.new_item.color),
                             lower(arg.existing_items[1].color)) = 5000
  /\ calculate_style_compatibility(arg.new_item.style_tags,
                                   arg.existing_items[2].style_tags) = 5000

(***************************************************************************)
(* style_scoring.py: the simple colour harmony                             *)
(***************************************************************************)

\* NEUTRALS
Neutrals == {"black", "white", "gray", "beige", "brown", "navy", "blue"}

\* good_pairs of _color_harmony
GoodPairs ==
  {<<"blue", "white">>, <<"blue", "beige">>, <<"red", "black">>, <<"green", "white">>,
   <<"pink", "white">>, <<"purple", "black">>, <<"yellow", "blue">>}

\* _color_harmony(a, b)
color_harmony(a, b) ==
  LET na == normalize_color(a)
      nb == normalize_color(b)
  IN  IF na = "unknown" \/ nb = "unknown" THEN 5500
      ELSE IF na = nb THEN 7000
      ELSE IF na \in Neutrals \/ nb \in Neutrals THEN 8500
      ELSE IF <<na, nb>> \in GoodPairs \/ <<nb, na>> \in GoodPairs THEN 8000
      ELSE 4500

\* the average of the simple colour harmony and the style compatibility of a pair
SimplePairCompatibility(item1, item2) ==
  (color_harmony([str |-> lower(item1.color)], [str |-> lower(item2.color)])
   + calculate_style_compatibility(item1.style_tags, item2.style_tags)) \div 2

\* the sum of SimplePairCompatibility over the pairs i < j of a list
SimplePairSum(outfit_items) ==
  LET n == Len(outfit_items)
      pairs == SelectSeq([k \in 1..(n * n) |-> <<((k - 1) \div n) + 1, ((k - 1) % n) + 1>>],
                         LAMBDA ij : ij[1] < ij[2])
  IN  SumSeq([k \in 1..Len(pairs) |->
                SimplePairCompatibility(outfit_items[pairs[k][1]],
                                        outfit_items[pairs[k][2]])])

\* C22: for a list of at least min_items items the aggregate score is the mean
\* of every item's suitability, one value per unordered pair that averages the
\* simple colour harmony (_color_harmony) with the style compatibility, the
\* weather bonus and the occasion bonus
C22_SimpleHarmonyInScore ==
  (/\ ret.fn = "calculate_outfit_score"
   /\ Len(arg.outfit_items) >= arg.context.config.min_items)
  => LET n == Len(arg.outfit_items)
     IN  ret.value =
           <<SumSeq([k \in 1..n |->
                       calculate_item_suitability(arg.outfit_items[k], arg.context)])
               + SimplePairSum(arg.outfit_items)
               + calculate_weather_adaptation_bonus(arg.outfit_items, arg.context)
               + calculate_occasion_bonus(arg.outfit_items, arg.context),
             n + ((n * (n - 1)) \div 2) + 2>>

(***************************************************************************)
(* Calls on wardrobes that hold, besides a top, a bottom and shoes, an     *)
(* accessory and up to two outerwear items, in cold and in rainy weather   *)
(***************************************************************************)

\* an accessory and a second outerwear item
Watch == Doc("a1", "Watch", "black", <<>>, "all-season", "casual", PyNone)
Coat == Doc("o2", "Coat", "black", <<>>, "winter", "casual", PyNone)

\* t1, b1, s1 and any of o1, a1, o2
LayeredWardrobes ==
  {SelectSeq(Catalogue \o <<Watch, Coat>>, LAMBDA d : d.id \in {"t1", "b1", "s1"} \cup extra) :
     extra \in SUBSET {"o1", "a1", "o2"}}

LayerWeathers ==
  {[temp_c |-> [num |-> 5], condition |-> "clear"],
   [temp_c |-> [num |-> 5], condition |-> "Rain"],
   [temp_c |-> [num |-> 13], condition |-> "clear"],
   [temp_c |-> [num |-> 22], condition |-> "clear"]}

InitLayers ==
  /\ db \in LayeredWardrobes
  /\ now = 0
  /\ cache = NewCache(DefaultTtl, DefaultMaxSize)
  /\ NoCall
  /\ NothingAside

\* a request on a layered wardrobe
LayerCall ==
  \E o \in Occasions, w \in LayerWeathers, f \in {PyNone, PyStr("a1")} :
     CallGenerate(o, w, 1, f)

NextLayers ==
  \/ LayerCall
  \/ Attempt
  \/ Finish

SpecLayers == InitLayers /\ [][NextLayers]_vars

\* C24: every returned outfit has at most max_items items for its outfit type
C24_AtMostMaxItems ==
  pc = "done" =>
    \A k \in 1..Len(result) :
       /\ Len(result[k].items) <= context.config.max_items
       /\ result[k].item_count <= context.config.max_items

\* C25: the weather bonus depends on the temperature only through the cold
\* bucket (temp_c <= 12): 1.2 when cold with an outerwear item, 0.8 when cold
\* without one, no adjustment in the mild, warm and hot buckets; apart from
\* that it is multiplied by 1.1 when the condition contains "rain" and an item
\* is tagged waterproof or has a category that names a boot
C25_ColdBucketOnly ==
  ret.fn = "calculate_weather_adaptation_bonus" =>
    ret.value =
      RainBonus(IF arg.context.weather_profile.bucket = "cold"
                THEN IF HasOuterwear(arg.outfit_items) THEN 12000 ELSE 8000
                ELSE 10000,
                arg.outfit_items, arg.context)

\* the number of slots of a category in a complementary list
Slots(list, category) == Cardinality({k \in 1..Len(list) : list[k] = category})

\* C26: the complementary list has one "accessory" slot, and two more exactly
\* for the formal, party and date outfit types; it has an "outerwear" slot
\* exactly when the weather bucket is cold (temp_c <= 12) or the condition
\* contains "rain"
C26_OuterwearSlotWhenColdOrRain ==
  ret.fn = "get_complementary_categories" =>
    /\ Slots(ret.value, "accessory")
         = (IF arg.context.outfit_type \in {"formal", "party", "date"} THEN 3 ELSE 1)
    /\ Slots(ret.value, "outerwear") >= 1
         <=> \/ arg.context.weather_profile.bucket = "cold"
             \/ Contains(arg.context.weather_profile.condition, "rain")
    /\ \A k \in 1..Len(ret.value) : ret.value[k] \in {"accessory", "outerwear"}

\* the context ctx with the condition "clear"
WithoutCold(ctx) == [ctx EXCEPT !.weather_profile.condition = "clear"]

\* C27: for an item of category "shorts" or "skirt" and a condition that
\* contains "cold", the suitability is 0.6 times the suitability of the same
\* item under a condition without "cold", hence lower
C27_ShortsPenalisedInCold ==
  (/\ ret.fn = "calculate_item_suitability"
   /\ arg.item.category \in {"shorts", "skirt"}
   /\ Contains(arg.context.weather_profile.condition, "cold"))
  => /\ ret.value = (calculate_item_suitability(arg.item, WithoutCold(arg.context)) * 6) \div 10
     /\ ret.value < calculate_item_suitability(arg.item, WithoutCold(arg.context))

(***************************************************************************)
(* Calls for formal and casual occasions on wardrobes of ill-matched       *)
(* items: summer items of casual formality in clashing colours and styles, *)
(* besides a formal gown and a winter jacket                               *)
(***************************************************************************)

FormalCatalogue ==
  << Doc("d1", "Dress", "red", <<"athletic">>, "summer", "casual", PyNone),
     Doc("g1", "Gown", "black", <<>>, "all-season", "formal", PyNone),
     Doc("h1", "Heels", "teal", <<"professional">>, "summer", "casual", PyNone),
     Doc("a2", "Belt", "red", <<"boho">>, "summer", "casual", PyNone),
     Doc("o1", "Jacket", "red", <<"athletic">>, "winter", "casual", PyStr("f2")) >>

\* the sub-lists of the formal catalogue
FormalWardrobes ==
  {SelectSeq(FormalCatalogue, LAMBDA d : d.id \in ids) :
     ids \in SUBSET {FormalCatalogue[k].id : k \in 1..Len(FormalCatalogue)}}

FormalOccasions == {PyStr("gala"), PyStr("casual day")}

FormalWeathers ==
  {[temp_c |-> [num |-> 5], condition |-> "Rain"],
   [temp_c |-> [num |-> 5], condition |-> "clear"],
   [temp_c |-> [num |-> 22], condition |-> "clear"]}

InitFormal ==
  /\ db \in FormalWardrobes
  /\ now = 0
  /\ cache = NewCache(DefaultTtl, DefaultMaxSize)
  /\ NoCall
  /\ NothingAside

\* a request on an empty formal wardrobe
FormalEmptyCall ==
  \E o \in FormalOccasions, w \in FormalWeathers, f \in {PyNone, PyStr("a2")} :
     CallEmpty(o, w, 1, f)

\* a request on a formal wardrobe
FormalCall ==
  \E o \in FormalOccasions, w \in FormalWeathers, f \in {PyNone, PyStr("a2")} :
     CallGenerate(o, w, 1, f)

NextFormal ==
  \/ FormalEmptyCall
  \/ FormalCall
  \/ Attempt
  \/ Finish

SpecFormal == InitFormal /\ [][NextFormal]_vars

\* the de-duplicated items of the attempt that the loop is about to make
CandidateItems ==
  deduplicate_items(
    add_complementary_items(select_base_items(user_items, context), user_items, context).items)

\* the attempt that the loop is about to make reaches _calculate_outfit_score
ReachesScore ==
  /\ Len(select_base_items(user_items, context).items) >= context.config.min_items
  /\ Len(CandidateItems) >= context.config.min_items

\* C28: the score < 0.5 rejection never fires: every de-duplicated candidate
\* of at least min_items items that reaches _calculate_outfit_score scores at
\* least 0.5, so an attempt that was scored is either accepted or discarded
\* as a duplicate combination
C28_NeverLowScore ==
  pc = "loop" =>
    /\ ReachesScore =>
         /\ calculate_outfit_score(CandidateItems, context)[1]
              >= 5000 * calculate_outfit_score(CandidateItems, context)[2]
         /\ AttemptOutcome(user_items, context, used_outfit_combinations).kind
              \in {"accepted", "duplicate"}
    /\ AttemptOutcome(user_items, context, used_outfit_combinations).kind # "low_score"

\* a call for a formal occasion in cold rain returned an outfit of three
\* items without a formal item and without outerwear that scored below 0.6
C28_Witness ==
  /\ pc = "done"
  /\ context.outfit_type = "formal"
  /\ Len(result) = 1
  /\ result[1].item_count = 3
  /\ result[1].occasion_suitability = 8000
  /\ result[1].weather_adaptation = 8000
  /\ result[1].score >= 500
  /\ result[1].score < 600

\* C29: no outfit accepted by the loop or returned by generate_outfits lists
\* an item id twice, with or without a focus item, also when the focus item
\* is the best item of its own category and is selected a second time
C29_NoRepeatedItem ==
  /\ \A k \in 1..Len(outfits) :
        /\ Cardinality(DistinctIds(outfits[k])) = Len(outfits[k].items)
        /\ outfits[k].item_count = Len(outfits[k].items)
  /\ \A k \in 1..Len(result) :
        /\ \A i, j \in 1..Len(result[k].items) :
              i # j => ItemId(result[k].items[i]) # ItemId(result[k].items[j])
        /\ result[k].item_count = Cardinality(DistinctIds(result[k]))

\* a call with a focus item that is also the best item of its category, so
\* that the selection lists it twice, returned an outfit that lists it once
C29_Witness ==
  /\ pc = "done"
  /\ ~IsNone(context.focus_item)
  /\ Cardinality({k \in 1..Len(select_base_items(user_items, context).items) :
                    ItemId(select_base_items(user_items, context).items[k])
                      = ItemId(context.focus_item.item)}) = 2
  /\ Len(result) = 1
  /\ Cardinality({k \in 1..Len(result[1].items) :
                    ItemId(result[1].items[k]) = ItemId(context.focus_item.item)}) = 1

====
